---- MODULE Spec2Model ----
(***************************************************************************)
(* Model of the single-parlay quoter: the RFQ matcher (app.py), the        *)
(* quoting orchestrator (app.py: handle_ws_message, handle_rfq,            *)
(* send_quote, confirm_quote and the operator routes) and the signed REST  *)
(* client's confirmation retry (kalshi_client.py).                         *)
(*                                                                         *)
(* Eight specifications share the variables below.                          *)
(*   SpecMatch  applies the pure matcher to bounded inputs.                *)
(*   Spec       is the orchestrator during one listener session: the       *)
(*              asyncio loop of the listener thread receives frames and    *)
(*              runs the tasks the handler schedules, while the operator   *)
(*              routes run on request threads and interleave with them.    *)
(*   SpecListener is one SimpleWebSocketClient (websocket_simple_client.py)*)
(*              from its start to the end of connect_and_listen, with      *)
(*              disconnect() called from the operator's thread.            *)
(*   SpecClient is one call of a KalshiClient method (kalshi_client.py):   *)
(*              confirm_quote with its retries, create_quote, or one of    *)
(*              the raise_for_status wrappers.                             *)
(*   SpecClassify applies extract_market_type (app.py) to leg tickers      *)
(*              assembled from keywords, and to sides.                     *)
(*   SpecTotal  does the same with tickers and sides that are not str.     *)
(*   SpecConfirm is the orchestrator's confirm_quote with the client call *)
(*              inside it, for credentials that may be missing.            *)
(*   SpecSession is the operator starting and stopping the listener        *)
(*              (app.py: start_websocket, stop_websocket), each start      *)
(*              with a client, a thread and a key file of its own.         *)
(***************************************************************************)
EXTENDS Integers, Sequences, FiniteSets, TLC

VARIABLES
    \* ---- app.py module state ----
    rfq_history,            \* list of RFQ records
    quote_history,          \* list of quote records ('sent' and 'error')
    accepted_quotes,        \* list of AcceptedQuote records
    auto_confirm_enabled,   \* bool
    QUOTE_YES_BID,          \* str
    QUOTE_NO_BID,           \* str
    selected_target_legs,   \* list of str
    \* ---- the listener thread's asyncio loop ----
    ready,                  \* FIFO of tasks created by asyncio.create_task
    running,                \* the task the loop is executing, or NoTask
    nframes,                \* frames handed to handle_ws_message so far
    listener,               \* the listener's message loop: listening, stopping, ended
    exchange_quotes,        \* number of quotes the exchange has created
    operator_actions,       \* requests the operator has made so far
    \* ---- observation (history variables) ----
    last_emit,              \* the last event confirm_quote emitted to observers
    rfq_received,           \* the payloads of the 'rfq_received' events emitted
    quote_emitted,          \* the events send_quote emitted, one per entry appended
    confirm_writes,         \* per AcceptedQuote record: writes of 'confirmed'
    auto_attempts,          \* per AcceptedQuote record: confirm tasks its event scheduled
    \* ---- the pure matcher applied to drawn inputs ----
    m_legs, m_targets, m_done, m_result,
    m_op,                   \* what was last done to the drawn RFQ
    \* ---- one SimpleWebSocketClient and its connect_and_listen call ----
    listen_pc,              \* where connect_and_listen is
    connected,              \* self.connected
    should_stop,            \* self.should_stop
    ws,                     \* the connection: "none", "open" or "closed"
    connect_attempts,       \* calls of websockets.connect in this invocation
    subscribe_sends,        \* subscribe commands sent on this connection
    received,               \* the frames the message loop has received
    dispatched,             \* the frames handed to message_callback, in order
    listen_exit,            \* why connect_and_listen ended
    starts,                 \* clients started so far
    \* ---- one call of a KalshiClient method ----
    k_call,                 \* the method called and its arguments
    k_pc,                   \* "idle", "attempt" (inside the method), "done"
    k_attempt,              \* confirm_quote: `attempt` of the retry loop
    k_last_error,           \* confirm_quote: last_error
    k_request_info,         \* confirm_quote: request_info
    k_sent,                 \* the requests the method has sent
    k_response,             \* the answer to the last request (NotSent: none was sent)
    k_result,               \* what the call returned or raised
    \* ---- one call of extract_market_type (SpecClassify) ----
    c_tokens,               \* the pieces leg_ticker is made of
    c_side,                 \* side
    c_type,                 \* the (sport, category) returned, <<>> before the call
    c_types,                \* the Python types of leg_ticker and of side
    \* ---- start_websocket / stop_websocket (SpecSession) ----
    ws_connected,           \* app.py: ws_connected
    ws_client,              \* app.py: ws_client, as an index into ws_threads (0: None)
    ws_threads,             \* the listener threads started, one client each
    temp_key_files,         \* how many files on disk hold the private key
    status_emitted          \* the last 'connection_status' event emitted

orch_vars == <<rfq_history, quote_history, accepted_quotes, auto_confirm_enabled,
               QUOTE_YES_BID, QUOTE_NO_BID, selected_target_legs, ready, running,
               nframes, listener, exchange_quotes, operator_actions, last_emit,
               rfq_received, quote_emitted, confirm_writes, auto_attempts>>
match_vars == <<m_legs, m_targets, m_done, m_result, m_op>>
lsn_vars == <<listen_pc, connected, should_stop, ws, connect_attempts,
              subscribe_sends, received, dispatched, listen_exit, starts>>
client_vars == <<k_call, k_pc, k_attempt, k_last_error, k_request_info, k_sent,
                 k_response, k_result>>
class_vars == <<c_tokens, c_side, c_type, c_types>>
session_vars == <<ws_connected, ws_client, ws_threads, temp_key_files,
                  status_emitted>>
aside_vars == <<match_vars, lsn_vars, client_vars, class_vars, session_vars>>
vars == <<orch_vars, match_vars, lsn_vars, client_vars, class_vars, session_vars>>

-----------------------------------------------------------------------------
(* Bounds of the model *)
MaxLegs == 2          \* legs per RFQ drawn for the matcher
MaxTargets == 2       \* target legs drawn for the matcher
MaxFrames == 3        \* frames the listener hands to the handler per session
MaxOperatorActions == 2  \* operator requests per session
MaxEvents == 5        \* frames and operator requests per session, together

-----------------------------------------------------------------------------
(* Strings are sequences of one-character strings, so that concatenation   *)
(* and str.upper() are computed rather than assumed.                       *)
LowerChars ==
    <<"a", "b", "c", "d", "e", "f", "g", "h", "i", "j", "k", "l", "m">>
    \o <<"n", "o", "p", "q", "r", "s", "t", "u", "v", "w", "x", "y", "z">>
UpperChars ==
    <<"A", "B", "C", "D", "E", "F", "G", "H", "I", "J", "K", "L", "M">>
    \o <<"N", "O", "P", "Q", "R", "S", "T", "U", "V", "W", "X", "Y", "Z">>

UpChar(c) ==
    IF \E i \in DOMAIN LowerChars : LowerChars[i] = c
    THEN UpperChars[CHOOSE i \in DOMAIN LowerChars : LowerChars[i] = c]
    ELSE c

\* str.upper()
Upper(s) == [i \in DOMAIN s |-> UpChar(s[i])]

\* f"{side}:{leg_market}"
LegIdRaw(leg) == leg.side \o <<":">> \o leg.market_ticker

\* leg_id = f"{side}:{leg_market}".upper()
LegId(leg) == Upper(LegIdRaw(leg))

\* mutant: only the last leg's id is kept (assignment instead of set.add)
RfqLegTickers_last(legs) ==
    IF legs = <<>> THEN {} ELSE { LegId(legs[Len(legs)]) }

\* mutant: the loop stops after the first leg
RfqLegTickers_first(legs) ==
    IF legs = <<>> THEN {} ELSE { LegId(legs[1]) }

\* rfq_leg_tickers: the set the loop over rfq_legs builds
RfqLegTickers(legs) == { LegId(legs[i]) : i \in DOMAIN legs }

\* selected_set = set(leg.upper() for leg in selected_target_legs)
SelectedSet(targets) == { Upper(targets[i]) : i \in DOMAIN targets }

\* mutant: the emptiness test is missing
NoTargets_skipped(targets) == FALSE

\* `if not selected_target_legs` (the first read of the global)
NoTargets(targets) == targets = <<>>

\* mutant: set equality instead of the subset test
AllSelectedInRfq_equal(legs, targets) ==
    SelectedSet(targets) = RfqLegTickers(legs)

\* selected_set.issubset(rfq_leg_tickers) (built from the second read of the global)
AllSelectedInRfq(legs, targets) ==
    SelectedSet(targets) \subseteq RfqLegTickers(legs)

\* matches_target_market(rfq_data) with selected_target_legs = targets throughout
matches_target_market(legs, targets) ==
    IF NoTargets(targets) THEN FALSE ELSE AllSelectedInRfq(legs, targets)

-----------------------------------------------------------------------------
(* Inputs *)
BoundedSeq(S, n) == UNION { [1..k -> S] : k \in 0..n }

\* a leg of 'mve_selected_legs'; a missing 'side' or 'market_ticker' reads as ''
Sides == { <<"y">>, <<"N">> }
Markets == { <<"a">>, <<"B">>, <<>> }
Legs == [side : Sides, market_ticker : Markets]

\* strings the operator may post as target legs
TargetStrings == { <<"y", ":", "a">>, <<"Y", ":", "A">>, <<"n", ":", "b">>, <<"y", ":">> }

\* Python's None, for quote ids (ids are positive integers)
None == 0

\* the quote ids a frame may carry: None (the field is missing) and the id of
\* the first quote the exchange creates in the session
FrameQuoteIds == {None, 1}

\* Python's None, for an absent bid in the update request
NoBid == "<None>"

DEFAULT_YES_BID == "0.0010"
DEFAULT_NO_BID == "0.5600"

NoTask == [kind |-> "none"]

-----------------------------------------------------------------------------
(* The state of app.py after import, in a session started by start_websocket *)
InitOrch ==
    /\ rfq_history = <<>>
    /\ quote_history = <<>>
    /\ accepted_quotes = <<>>
    /\ auto_confirm_enabled = FALSE
    /\ QUOTE_YES_BID = DEFAULT_YES_BID
    /\ QUOTE_NO_BID = DEFAULT_NO_BID
    /\ selected_target_legs = <<>>
    /\ ready = <<>>
    /\ running = NoTask
    /\ nframes = 0
    /\ listener = "listening"
    /\ exchange_quotes = 0
    /\ operator_actions = 0
    /\ last_emit = "none"
    /\ quote_emitted = <<>>
    /\ rfq_received = <<>>
    /\ confirm_writes = <<>>
    /\ auto_attempts = <<>>

InitMatchIdle ==
    /\ m_legs = <<>>
    /\ m_targets = <<>>
    /\ m_done = FALSE
    /\ m_result = FALSE
    /\ m_op = "none"

\* SimpleWebSocketClient.__init__, before connect_and_listen is called
InitListener ==
    /\ listen_pc = "idle"
    /\ connected = FALSE
    /\ should_stop = FALSE
    /\ ws = "none"
    /\ connect_attempts = 0
    /\ subscribe_sends = 0
    /\ received = <<>>
    /\ dispatched = <<>>
    /\ listen_exit = "none"
    /\ starts = 0

\* None, for request_info and for an exception that was never raised
NoRequest == [method |-> "none"]
NoError == [type |-> "none"]
NoCall == [method |-> "none"]
NoResult == [kind |-> "none"]
\* no request went out: the method raised before it sent one
NotSent == [status |-> -1, body |-> "none"]

\* a KalshiClient on which no method has been called yet
InitClient ==
    /\ k_call = NoCall
    /\ k_pc = "idle"
    /\ k_attempt = 0
    /\ k_last_error = NoError
    /\ k_request_info = NoRequest
    /\ k_sent = <<>>
    /\ k_response = NotSent
    /\ k_result = NoResult

\* no leg has been classified; side has its default ""
InitClassify ==
    /\ c_tokens = <<>>
    /\ c_side = <<>>
    /\ c_type = <<>>
    /\ c_types = <<"str", "str">>

\* the module as imported: ws_client = None, ws_connected = False
InitSession ==
    /\ ws_connected = FALSE
    /\ ws_client = 0
    /\ ws_threads = <<>>
    /\ temp_key_files = 0
    /\ status_emitted = [connected |-> FALSE, error |-> "none"]

-----------------------------------------------------------------------------
(* SpecMatch: the matcher applied to every drawn RFQ and target list *)
InitMatch ==
    /\ InitOrch
    /\ InitListener
    /\ InitClient
    /\ InitClassify
    /\ InitSession
    /\ m_legs \in BoundedSeq(Legs, MaxLegs)
    /\ m_targets \in BoundedSeq(TargetStrings, MaxTargets)
    /\ m_done = FALSE
    /\ m_result = FALSE
    /\ m_op = "none"

ApplyMatcher ==
    /\ ~m_done
    /\ m_done' = TRUE
    /\ m_result' = matches_target_market(m_legs, m_targets)
    /\ m_op' = "apply"
    /\ UNCHANGED <<m_legs, m_targets, orch_vars, lsn_vars, client_vars, class_vars, session_vars>>

\* the matcher applied to the same RFQ with one more leg, same target list
ExtendRfq(leg) ==
    /\ m_done
    /\ Len(m_legs) <= MaxLegs
    /\ m_legs' = Append(m_legs, leg)
    /\ m_result' = matches_target_market(m_legs', m_targets)
    /\ m_op' = "extend"
    /\ UNCHANGED <<m_targets, m_done, orch_vars, lsn_vars, client_vars, class_vars, session_vars>>

\* the list with the entries at i and i + 1 exchanged
SwapLegs(legs, i) ==
    [j \in DOMAIN legs |-> IF j = i THEN legs[i + 1]
                           ELSE IF j = i + 1 THEN legs[i] ELSE legs[j]]

\* the matcher applied to the same legs in another order, same target list
PermuteRfq(i) ==
    /\ m_done
    /\ i + 1 \in DOMAIN m_legs
    /\ m_legs' = SwapLegs(m_legs, i)
    /\ m_result' = matches_target_market(m_legs', m_targets)
    /\ m_op' = "permute"
    /\ UNCHANGED <<m_targets, m_done, orch_vars, lsn_vars, client_vars, class_vars, session_vars>>

NextMatch ==
    \/ ApplyMatcher
    \/ \E leg \in Legs : ExtendRfq(leg)
    \/ \E i \in 1..MaxLegs : PermuteRfq(i)

SpecMatch == InitMatch /\ [][NextMatch]_vars

-----------------------------------------------------------------------------
(* KalshiClient.create_quote, the definition in force (the second one) *)

\* float(s) does not raise ValueError
ParsesAsFloat(s) == s \in {"0.0010", "0.5600", "0.3000", "0.50"}

\* the request body's bids: both are replaced by "0.50" when either fails to parse
create_quote_body(yes_bid, no_bid) ==
    IF ParsesAsFloat(yes_bid) /\ ParsesAsFloat(no_bid)
    THEN [yes_bid |-> yes_bid, no_bid |-> no_bid]
    ELSE [yes_bid |-> "0.50", no_bid |-> "0.50"]

\* what the exchange may answer to the POST: 200/201 with a body that has
\* quote_id, 200/201 with a body that has none, another status, no answer
CreateOutcomes == {"created", "created_no_id", "rejected", "network_error"}

\* `if resp.status_code not in [200, 201]` raises; a transport error raises too
create_quote_returns(outcome) == outcome \in {"created", "created_no_id"}

\* quote_id = result.get('quote', {}).get('quote_id') ... else result.get('quote_id')
result_quote_id(outcome, fresh) == IF outcome = "created" THEN fresh ELSE None

\* str(e) of the exception create_quote raised
create_quote_error(outcome) ==
    IF outcome = "rejected" THEN "HTTP 400" ELSE "ConnectionError"

-----------------------------------------------------------------------------
(* KalshiClient.confirm_quote: one iteration of `for attempt in range(1, 4)` *)

\* what the exchange may answer to one PUT: 200 with a JSON object, 204, an
\* error status, no answer, 200 with a body resp.json() cannot parse (the
\* exception is caught by the attempt's `except Exception`)
ConfirmOutcomes ==
    {"status_200", "status_204", "status_400", "network_error", "status_200_unparsed"}

\* `if resp.status_code in [200, 204]` and the branch reaches `return result`
confirm_attempt_succeeds(outcome) == outcome \in {"status_200", "status_204"}

\* mutant: range(1, 5)
confirm_has_next_attempt_4(attempt) == attempt < 4

\* range(1, 4): attempt 3 is the last one
confirm_has_next_attempt(attempt) == attempt < 3

\* the value returned: the parsed body for a 200, the synthetic result for a 204
confirm_result(outcome) ==
    IF outcome = "status_200" THEN "body" ELSE "synthetic_confirmed"

\* str(last_error)
confirm_error(outcome) ==
    IF outcome = "status_400" THEN "400 Client Error"
    ELSE IF outcome = "status_200_unparsed" THEN "JSONDecodeError"
    ELSE "ConnectionError"

-----------------------------------------------------------------------------
(* Python dicts are records; d[k] = v adds or replaces a key *)
SetKey(d, k, v) == (k :> v) @@ d

\* d.get(k): None when the key is missing
GetQuoteId(d) == IF "quote_id" \in DOMAIN d THEN d.quote_id ELSE None

\* index of the first entry of list whose 'quote_id' equals quote_id, 0 if none
FirstWithQuoteId(list, quote_id) ==
    IF \E i \in DOMAIN list : GetQuoteId(list[i]) = quote_id
    THEN CHOOSE i \in DOMAIN list :
            /\ GetQuoteId(list[i]) = quote_id
            /\ \A j \in 1..(i - 1) : GetQuoteId(list[j]) # quote_id
    ELSE 0

\* mutant: every entry's flag is rewritten, `matched = (quote_id matches)`
mark_matched_rewrites(history, quote_id) ==
    [i \in DOMAIN history |->
        SetKey(history[i], "matched", GetQuoteId(history[i]) = quote_id)]

\* mutant: the matched entry is taken out of the history
mark_matched_removes(history, quote_id) ==
    LET i == FirstWithQuoteId(history, quote_id) IN
    IF i = 0 THEN history
    ELSE SubSeq(history, 1, i - 1) \o SubSeq(history, i + 1, Len(history))

\* the loop of handle_ws_message over quote_history: the first entry with this
\* quote id gets matched = True and matched_at
\* mutant: the loop over quote_history finds nothing
mark_matched_never(history, quote_id) == history

mark_matched(history, quote_id) ==
    LET i == FirstWithQuoteId(history, quote_id) IN
    IF i = 0 THEN history
    ELSE [history EXCEPT ![i] = SetKey(SetKey(@, "matched", TRUE), "matched_at", "now")]

-----------------------------------------------------------------------------
(* Spec: the orchestrator during one listener session.                     *)
(*                                                                         *)
(* The coroutines handle_rfq, send_quote and confirm_quote never suspend   *)
(* (the REST calls and the sleeps between retries block), so the loop runs *)
(* one task from its start to its end before it receives the next frame or *)
(* starts the next task; `running` is that task. The operator routes run   *)
(* on request threads and may act between any two steps of a task.         *)
(***************************************************************************)
loop_vars == <<ready, running, nframes, exchange_quotes, listener>>

\* the operator's request is one of the few the session allows
OperatorActs ==
    /\ operator_actions < MaxOperatorActions
    /\ nframes + operator_actions < MaxEvents
    /\ operator_actions' = operator_actions + 1
config_vars == <<auto_confirm_enabled, QUOTE_YES_BID, QUOTE_NO_BID, selected_target_legs>>
rfq_log == <<rfq_history, rfq_received>>
history_vars == <<rfq_log, quote_history, accepted_quotes>>
confirm_counts == <<confirm_writes, auto_attempts>>

LoopIdle == running = NoTask

\* `async for message in websocket` yields one more frame
FrameArrives ==
    /\ LoopIdle
    /\ listener = "listening"
    /\ nframes < MaxFrames
    /\ nframes + operator_actions < MaxEvents
    /\ nframes' = nframes + 1

\* the RFQs of the session: leg lists in both orders, with and without extras
SessionLegs ==
    { <<[side |-> <<"y">>, market_ticker |-> <<"a">>]>>,
      <<[side |-> <<"N">>, market_ticker |-> <<"B">>],
        [side |-> <<"y">>, market_ticker |-> <<"a">>]>> }

\* the rfq_created messages of the session: rfq_data['mve_selected_legs'] is a
\* list of leg objects, or null (then `for leg in legs` raises TypeError)
SessionRfqs ==
    { [legs |-> legs, legs_null |-> FALSE] : legs \in SessionLegs }
        \cup { [legs |-> <<>>, legs_null |-> TRUE] }

\* the target lists the operator posts in the session
SessionTargets ==
    { <<>>, <<<<"y", ":", "a">>, <<"n", ":", "b">>>> }

\* the bids the operator posts in the session, <<yes_bid, no_bid>> (NoBid: the
\* field is absent); "abc" is a value float() rejects
SessionBids == { <<"abc", NoBid>>, <<NoBid, "0.3000">> }

\* ---- handle_ws_message, called by the listener for one frame ----

\* msg_type == 'rfq_created': asyncio.create_task(handle_rfq(rfq))
recv_rfq_created(rfq) ==
    /\ FrameArrives
    /\ ready' = Append(ready, [kind |-> "handle_rfq", rfq_id |-> nframes + 1,
                               legs |-> rfq.legs, legs_null |-> rfq.legs_null])
    /\ UNCHANGED <<running, exchange_quotes, config_vars, history_vars,
                   last_emit, quote_emitted, confirm_counts, aside_vars, operator_actions, listener>>

\* mutant: `accepted_entry['auto_confirmed'] = True` is missing
accepted_entry_unflagged(quote_id, auto) ==
    [quote_id |-> quote_id, confirmed |-> FALSE, auto_confirmed |-> FALSE]

\* the accepted_entry dict, after `accepted_entry['auto_confirmed'] = True`
accepted_entry(quote_id, auto) ==
    [quote_id |-> quote_id, confirmed |-> FALSE, auto_confirmed |-> auto]

\* mutant: the confirmation is scheduled whatever auto_confirm_enabled is
accepted_tasks_always(quote_id, auto) ==
    <<[kind |-> "confirm_quote", quote_id |-> quote_id]>>

\* the tasks the quote_accepted branch schedules
accepted_tasks(quote_id, auto) ==
    IF auto THEN <<[kind |-> "confirm_quote", quote_id |-> quote_id]>> ELSE <<>>

\* msg_type == 'quote_accepted'
recv_quote_accepted(quote_id) ==
    /\ FrameArrives
    /\ accepted_quotes' =
           Append(accepted_quotes, accepted_entry(quote_id, auto_confirm_enabled))
    /\ ready' = ready \o accepted_tasks(quote_id, auto_confirm_enabled)
    /\ quote_history' = mark_matched(quote_history, quote_id)
    /\ confirm_writes' = Append(confirm_writes, 0)
    /\ auto_attempts' =
           Append(auto_attempts, Len(accepted_tasks(quote_id, auto_confirm_enabled)))
    /\ UNCHANGED <<running, exchange_quotes, config_vars, rfq_log,
                   last_emit, quote_emitted, aside_vars, operator_actions, listener>>

\* msg_type in ['quote_created', 'quote_confirmed']
recv_quote_event(quote_id) ==
    /\ FrameArrives
    /\ quote_history' = mark_matched(quote_history, quote_id)
    /\ UNCHANGED <<ready, running, exchange_quotes, config_vars, rfq_log,
                   accepted_quotes, last_emit, quote_emitted, confirm_counts, aside_vars, operator_actions, listener>>

\* msg_type == 'rfq_deleted': the listener logs it and calls no handler
recv_rfq_deleted ==
    /\ LoopIdle
    /\ listener = "listening"
    /\ UNCHANGED vars

\* ---- the loop starts the next ready task ----
first_step(task) ==
    IF task.kind = "handle_rfq"
    THEN [kind |-> "handle_rfq", pc |-> "match_test", rfq_id |-> task.rfq_id,
          legs |-> task.legs, legs_null |-> task.legs_null,
          create_quote_calls |-> 0]
    ELSE [kind |-> "confirm_quote", pc |-> "attempt", quote_id |-> task.quote_id,
          attempt |-> 1, requests_sent |-> 0, outcome |-> "none", client_calls |-> 0]

run_next_task ==
    /\ LoopIdle
    /\ listener # "ended"
    /\ ready # <<>>
    /\ running' = first_step(Head(ready))
    /\ ready' = Tail(ready)
    /\ UNCHANGED <<nframes, exchange_quotes, config_vars, history_vars,
                   last_emit, quote_emitted, confirm_counts, aside_vars, operator_actions, listener>>

\* ---- handle_rfq ----
IsStep(kind, pc) == running.kind = kind /\ running.pc = pc

rfq_entry(rfq_id, matches) == [rfq_id |-> rfq_id, matches |-> matches]

\* mutant: observers are told of matching RFQs only
rfq_emits_on_match(entry) == IF entry.matches THEN <<entry>> ELSE <<>>

\* socketio.emit('rfq_received', rfq_entry): the payloads emitted for one record
rfq_emits(entry) == <<entry>>

\* rfq_history.append(rfq_entry); socketio.emit('rfq_received', rfq_entry)
record_rfq(entry) ==
    /\ rfq_history' = Append(rfq_history, entry)
    /\ rfq_received' = rfq_received \o rfq_emits(entry)

\* handle_rfq up to the first read of selected_target_legs: the loop over the
\* legs (a null leg list raises there, and `except Exception` logs and ends
\* the task), then matches_target_market up to `if not selected_target_legs:
\* return False`; with no target legs the RFQ is recorded as no match
handle_rfq_match_test ==
    /\ IsStep("handle_rfq", "match_test")
    /\ IF running.legs_null
       THEN /\ running' = NoTask
            /\ UNCHANGED rfq_log
       ELSE IF NoTargets(selected_target_legs)
       THEN /\ record_rfq(rfq_entry(running.rfq_id, FALSE))
            /\ running' = NoTask
       ELSE /\ running' = SetKey(running, "pc", "match_subset")
            /\ UNCHANGED rfq_log
    /\ UNCHANGED <<ready, nframes, exchange_quotes, config_vars, quote_history,
                   accepted_quotes, last_emit, quote_emitted, confirm_counts, aside_vars, operator_actions, listener>>

\* the rest of matches_target_market, then rfq_history.append(rfq_entry), the
\* emit and the branch on `matches`
handle_rfq_match_subset ==
    /\ IsStep("handle_rfq", "match_subset")
    /\ LET matches == AllSelectedInRfq(running.legs, selected_target_legs) IN
       /\ record_rfq(rfq_entry(running.rfq_id, matches))
       /\ IF matches
          THEN running' = SetKey(running, "pc", "send_quote")
          ELSE running' = NoTask
    /\ UNCHANGED <<ready, nframes, exchange_quotes, config_vars, quote_history,
                   accepted_quotes, last_emit, quote_emitted, confirm_counts, aside_vars, operator_actions, listener>>

\* ---- send_quote, awaited by handle_rfq ----
configured_bids == [yes_bid |-> QUOTE_YES_BID, no_bid |-> QUOTE_NO_BID]

\* request_payload = {..., "yes_bid": QUOTE_YES_BID, "no_bid": QUOTE_NO_BID, ...}
send_quote_payload ==
    /\ IsStep("handle_rfq", "send_quote")
    /\ running' = SetKey(SetKey(SetKey(running, "pc", "create_quote"),
                                "request_payload", configured_bids),
                         "start_len", Len(quote_history))
    /\ UNCHANGED <<ready, nframes, exchange_quotes, config_vars, history_vars,
                   last_emit, quote_emitted, confirm_counts, aside_vars, operator_actions, listener>>

\* mutant: the bids of request_payload, read earlier, are passed
create_quote_args_stale(task) == task.request_payload

\* the arguments of client.create_quote(..., yes_bid=QUOTE_YES_BID, no_bid=QUOTE_NO_BID, ...)
create_quote_args(task) == configured_bids

\* result = client.create_quote(...): the call, the request and the answer
send_quote_create(outcome) ==
    /\ IsStep("handle_rfq", "create_quote")
    /\ LET args == create_quote_args(running)
           called == [running EXCEPT !.create_quote_calls = @ + 1]
           locals == ("args" :> args) @@ ("configured" :> configured_bids)
                     @@ ("body" :> create_quote_body(args.yes_bid, args.no_bid))
                     @@ ("outcome" :> outcome)
                     @@ ("quote_id" :> result_quote_id(outcome, exchange_quotes + 1))
       IN
       IF create_quote_returns(outcome)
       THEN /\ running' = SetKey(locals @@ called, "pc", "sent_entry")
            /\ exchange_quotes' = exchange_quotes + 1
       ELSE /\ running' = SetKey(locals @@ called, "pc", "error_entry")
            /\ UNCHANGED exchange_quotes
    /\ UNCHANGED <<ready, nframes, config_vars, history_vars,
                   last_emit, quote_emitted, confirm_counts, aside_vars, operator_actions, listener>>

\* quote_entry of the try branch
sent_entry(task) ==
    [rfq_id |-> task.rfq_id, quote_id |-> task.quote_id,
     yes_bid |-> QUOTE_YES_BID, no_bid |-> QUOTE_NO_BID,
     request_payload |-> task.request_payload,
     response_payload |-> [status |-> "201 Created", body |-> "result"],
     status |-> "sent", matched |-> FALSE]

\* quote_entry of the except branch (request_payload is built again there);
\* the exceptions create_quote raises have no response, so response_payload
\* is {"status": "Error", "body": {"error": str(e)}}
error_entry(task) ==
    [rfq_id |-> task.rfq_id,
     yes_bid |-> QUOTE_YES_BID, no_bid |-> QUOTE_NO_BID,
     request_payload |-> configured_bids,
     response_payload |-> [status |-> "Error",
                           body |-> create_quote_error(task.outcome)],
     status |-> "error", error |-> create_quote_error(task.outcome)]

\* the entries send_quote appends after create_quote returned
sent_entries(task) == <<sent_entry(task)>>

\* mutant: the except branch records nothing
error_entries_none(task) == <<>>

\* the entries send_quote appends after create_quote raised
error_entries(task) == <<error_entry(task)>>

\* socketio.emit('quote_sent', quote_entry)
sent_emits(task) == <<"quote_sent">>

\* mutant: the except branch tells no observer
error_emits_silent(task) == <<>>

\* socketio.emit('quote_error', quote_entry)
error_emits(task) == <<"quote_error">>

\* quote_history.append(quote_entry); socketio.emit('quote_sent'); return
send_quote_sent ==
    /\ IsStep("handle_rfq", "sent_entry")
    /\ quote_history' = quote_history \o sent_entries(running)
    /\ quote_emitted' = quote_emitted \o sent_emits(running)
    /\ running' = NoTask
    /\ UNCHANGED <<ready, nframes, exchange_quotes, config_vars, rfq_log,
                   accepted_quotes, last_emit, confirm_counts, aside_vars,
                   operator_actions, listener>>

\* except Exception: quote_history.append(quote_entry); socketio.emit('quote_error')
send_quote_error ==
    /\ IsStep("handle_rfq", "error_entry")
    /\ quote_history' = quote_history \o error_entries(running)
    /\ quote_emitted' = quote_emitted \o error_emits(running)
    /\ running' = NoTask
    /\ UNCHANGED <<ready, nframes, exchange_quotes, config_vars, rfq_log,
                   accepted_quotes, last_emit, confirm_counts, aside_vars,
                   operator_actions, listener>>

\* ---- confirm_quote (app.py), with client.confirm_quote run inside it ----

\* the try branch: the first record with this quote id is confirmed
record_confirmed(list, quote_id, result) ==
    LET i == FirstWithQuoteId(list, quote_id) IN
    IF i = 0 THEN list
    ELSE [list EXCEPT ![i] =
            SetKey(SetKey(SetKey(@, "confirmed", TRUE),
                          "confirmation_response", [status |-> "200 OK", body |-> result]),
                   "confirmation_time", "now")]

\* mutant: the except branch sets confirmed = True like the try branch
record_confirmation_error_flagged(list, quote_id, error) ==
    LET i == FirstWithQuoteId(list, quote_id) IN
    IF i = 0 THEN list
    ELSE [list EXCEPT ![i] =
            SetKey(SetKey(@, "confirmed", TRUE), "confirmation_error", error)]

\* the except branch: the first record with this quote id gets the error
record_confirmation_error(list, quote_id, error) ==
    LET i == FirstWithQuoteId(list, quote_id) IN
    IF i = 0 THEN list
    ELSE [list EXCEPT ![i] =
            SetKey(SetKey(SetKey(@, "confirmed", FALSE),
                          "confirmation_error", error),
                   "confirmation_response", [status |-> "Error", body |-> error])]

\* the event socketio.emit sends from inside the loop over accepted_quotes
confirm_emits(list, quote_id, returned) ==
    IF FirstWithQuoteId(list, quote_id) = 0 THEN "none"
    ELSE IF returned THEN "quote_confirmed" ELSE "quote_confirmation_error"

count_write(writes, i) ==
    IF i = 0 THEN writes ELSE [writes EXCEPT ![i] = @ + 1]

\* where client.confirm_quote goes after an attempt with this outcome:
\* it returns, it goes round the loop again, or it raises last_error
after_attempt(attempt, outcome) ==
    IF confirm_attempt_succeeds(outcome) THEN "returned"
    ELSE IF confirm_has_next_attempt(attempt) THEN "attempt"
    ELSE "raised"

\* result = client.confirm_quote(quote_id): one attempt of the client's loop
confirm_quote_attempt(outcome) ==
    /\ IsStep("confirm_quote", "attempt")
    /\ running' =
          [running EXCEPT
              !.pc = after_attempt(running.attempt, outcome),
              !.attempt = IF after_attempt(running.attempt, outcome) = "attempt"
                          THEN @ + 1 ELSE @,
              !.requests_sent = @ + 1,
              !.outcome = outcome,
              !.client_calls = @ + (IF running.attempt = 1 THEN 1 ELSE 0)]
    /\ UNCHANGED <<ready, nframes, exchange_quotes, config_vars, history_vars,
                   last_emit, quote_emitted, confirm_counts, aside_vars, operator_actions, listener>>

\* the rest of the try branch, after client.confirm_quote returned
confirm_quote_returned ==
    /\ IsStep("confirm_quote", "returned")
    /\ accepted_quotes' =
          record_confirmed(accepted_quotes, running.quote_id,
                           confirm_result(running.outcome))
    /\ last_emit' = confirm_emits(accepted_quotes, running.quote_id, TRUE)
    /\ confirm_writes' =
          count_write(confirm_writes, FirstWithQuoteId(accepted_quotes, running.quote_id))
    /\ running' = NoTask
    /\ UNCHANGED <<ready, nframes, exchange_quotes, config_vars, rfq_log,
                   quote_history, quote_emitted, auto_attempts, aside_vars,
                   operator_actions, listener>>

\* the except branch, after client.confirm_quote raised
confirm_quote_raised ==
    /\ IsStep("confirm_quote", "raised")
    /\ accepted_quotes' =
          record_confirmation_error(accepted_quotes, running.quote_id,
                                    confirm_error(running.outcome))
    /\ last_emit' = confirm_emits(accepted_quotes, running.quote_id, FALSE)
    /\ confirm_writes' =
          count_write(confirm_writes, FirstWithQuoteId(accepted_quotes, running.quote_id))
    /\ running' = NoTask
    /\ UNCHANGED <<ready, nframes, exchange_quotes, config_vars, rfq_log,
                   quote_history, quote_emitted, auto_attempts, aside_vars,
                   operator_actions, listener>>

\* ---- the operator's routes ----
toggle_auto_confirm ==
    /\ OperatorActs
    /\ auto_confirm_enabled' = ~auto_confirm_enabled
    /\ UNCHANGED <<QUOTE_YES_BID, QUOTE_NO_BID, selected_target_legs, loop_vars,
                   history_vars, last_emit, quote_emitted, confirm_counts, aside_vars>>

update_quote_prices(yes_bid, no_bid) ==
    /\ OperatorActs
    /\ QUOTE_YES_BID' = IF yes_bid # NoBid THEN yes_bid ELSE QUOTE_YES_BID
    /\ QUOTE_NO_BID' = IF no_bid # NoBid THEN no_bid ELSE QUOTE_NO_BID
    /\ UNCHANGED <<auto_confirm_enabled, selected_target_legs, loop_vars,
                   history_vars, last_emit, quote_emitted, confirm_counts, aside_vars>>

\* mutant: the recorded RFQs are classified again under the new target list
set_target_legs_reclassifies(target_legs) ==
    /\ OperatorActs
    /\ selected_target_legs' = target_legs
    /\ rfq_history' = [i \in DOMAIN rfq_history |->
                          [rfq_history[i] EXCEPT !.matches = (target_legs # <<>>)]]
    /\ UNCHANGED <<auto_confirm_enabled, QUOTE_YES_BID, QUOTE_NO_BID, loop_vars,
                   rfq_received, quote_history, accepted_quotes,
                   last_emit, quote_emitted, confirm_counts, aside_vars>>

set_target_legs(target_legs) ==
    /\ OperatorActs
    /\ selected_target_legs' = target_legs
    /\ UNCHANGED <<auto_confirm_enabled, QUOTE_YES_BID, QUOTE_NO_BID, loop_vars,
                   history_vars, last_emit, quote_emitted, confirm_counts, aside_vars>>

\* the quote ids of the operator's manual confirm requests (a URL segment,
\* never None)
ManualQuoteIds == {1}

\* POST /api/confirm-quote/<quote_id>: without a record the route answers 404;
\* with one, asyncio.create_task is called on the request thread, where no
\* event loop is running, so it raises RuntimeError before any task exists
manual_confirm_quote(quote_id) ==
    /\ OperatorActs
    /\ UNCHANGED <<loop_vars, config_vars, history_vars,
                   last_emit, quote_emitted, confirm_counts, aside_vars>>

\* the lists the history routes read
HistoryRoutes == {"rfq-history", "quote-history", "accepted-quotes"}

\* list[-50:]: a new list of the last 50 entries
LastEntries(list, n) ==
    SubSeq(list, (IF Len(list) > n THEN Len(list) - n + 1 ELSE 1), Len(list))

\* the body of the response of GET /api/<route>
history_response(route) ==
    IF route = "rfq-history" THEN LastEntries(rfq_history, 50)
    ELSE IF route = "quote-history" THEN LastEntries(quote_history, 50)
    ELSE LastEntries(accepted_quotes, 50)

\* GET /api/rfq-history, /api/quote-history, /api/accepted-quotes: the slice
\* is a copy, the list itself is left as it is
get_history(route) ==
    /\ OperatorActs
    /\ UNCHANGED <<loop_vars, config_vars, history_vars,
                   last_emit, quote_emitted, confirm_counts, aside_vars>>

\* socketio 'stop_websocket': ws_client.disconnect() sets should_stop; the
\* message loop ends at the next frame it receives or when the close reaches
\* it. Without a client, or with one whose loop has ended, nothing changes.
stop_websocket ==
    /\ OperatorActs
    /\ listener' = IF listener = "listening" THEN "stopping" ELSE listener
    /\ UNCHANGED <<ready, running, nframes, exchange_quotes, config_vars,
                   history_vars, last_emit, quote_emitted, confirm_counts, aside_vars>>

\* connect_and_listen returns (after `break`, a closed connection or a
\* transport error) and asyncio.run cancels the tasks that have not started
listener_exits ==
    /\ LoopIdle
    /\ listener # "ended"
    /\ listener' = "ended"
    /\ ready' = <<>>
    /\ UNCHANGED <<running, nframes, exchange_quotes, config_vars, history_vars,
                   last_emit, quote_emitted, confirm_counts, aside_vars, operator_actions>>

\* socketio 'start_websocket' after the previous loop has ended: a new client,
\* a new thread and a new loop
start_websocket ==
    /\ OperatorActs
    /\ listener = "ended"
    /\ listener' = "listening"
    /\ UNCHANGED <<ready, running, nframes, exchange_quotes, config_vars,
                   history_vars, last_emit, quote_emitted, confirm_counts, aside_vars>>

-----------------------------------------------------------------------------
Init == InitOrch /\ InitMatchIdle /\ InitListener /\ InitClient /\ InitClassify
        /\ InitSession

Next ==
    \/ \E rfq \in SessionRfqs : recv_rfq_created(rfq)
    \/ \E quote_id \in FrameQuoteIds : recv_quote_accepted(quote_id)
    \/ \E quote_id \in FrameQuoteIds : recv_quote_event(quote_id)
    \/ recv_rfq_deleted
    \/ run_next_task
    \/ handle_rfq_match_test
    \/ handle_rfq_match_subset
    \/ send_quote_payload
    \/ \E outcome \in CreateOutcomes : send_quote_create(outcome)
    \/ send_quote_sent
    \/ send_quote_error
    \/ \E outcome \in ConfirmOutcomes : confirm_quote_attempt(outcome)
    \/ confirm_quote_returned
    \/ confirm_quote_raised
    \/ toggle_auto_confirm
    \/ \E bids \in SessionBids : update_quote_prices(bids[1], bids[2])
    \/ \E target_legs \in SessionTargets : set_target_legs(target_legs)
    \/ \E quote_id \in ManualQuoteIds : manual_confirm_quote(quote_id)
    \/ \E route \in HistoryRoutes : get_history(route)
    \/ stop_websocket
    \/ listener_exits
    \/ start_websocket

Spec == Init /\ [][Next]_vars

-----------------------------------------------------------------------------
(* SpecListener: one SimpleWebSocketClient from start to the end of its
   connect_and_listen call, with disconnect() called from the operator's
   thread at any moment *)

MaxListenerFrames == 3
MaxStarts == 2

\* the values of 'type' the message loop tells apart; "other" is any other
\* string and "absent" a frame without the key (read as 'unknown')
MessageTypes == {"rfq_created", "rfq_deleted", "quote_created",
                 "quote_accepted", "quote_confirmed", "subscribed",
                 "other", "absent"}

\* the branches of the message loop that read data['msg'] with .get
ReadsMsg == {"rfq_created", "rfq_deleted", "quote_created",
             "quote_accepted", "quote_confirmed"}

\* an inbound frame: text that json.loads rejects, JSON that is not an
\* object, or an object with a type whose 'msg' is an object or null
ListenerFrames ==
    { [json |-> j, type |-> "none", msg |-> "none"] : j \in {"invalid", "array"} }
    \cup { [json |-> "object", type |-> t, msg |-> "object"] : t \in MessageTypes }
    \cup { [json |-> "object", type |-> t, msg |-> "null"] : t \in ReadsMsg }

\* the branches that call self.message_callback(data)
CallbackTypes == {"rfq_created", "quote_created", "quote_accepted",
                  "quote_confirmed"}

\* the body of the loop raises before it reaches a callback: json.loads fails,
\* data.get on a list, or .get on a null 'msg'
frame_raises(frame) ==
    \/ frame.json # "object"
    \/ frame.type \in ReadsMsg /\ frame.msg = "null"

frame_is_dispatched_rfq_only(frame) ==
    ~frame_raises(frame) /\ frame.type = "rfq_created"

\* whether the loop body hands the frame to message_callback
frame_is_dispatched(frame) ==
    ~frame_raises(frame) /\ frame.type \in CallbackTypes

stop_requested_ignored(flag) == FALSE

\* `if self.should_stop: break` at the head of the loop body
stop_requested(flag) == flag

after_frame_stops_on_error(frame) ==
    IF frame_raises(frame) \/ frame.type \in {"other", "absent"}
    THEN "done" ELSE "listening"

\* both except clauses of the loop body only log: the loop goes on
after_frame(frame) == "listening"

after_connect_skips_subscribe(opened) == IF opened THEN "subscribed" ELSE "done"
after_connect_retries(opened) == IF opened THEN "subscribe" ELSE "connect"

\* websockets.connect is entered once: its failure leaves the function
after_connect(opened) == IF opened THEN "subscribe" ELSE "done"

\* start_websocket: a new client object and a thread that runs
\* asyncio.run(ws_client.connect_and_listen())
client_started ==
    /\ listen_pc \in {"idle", "done"}
    /\ starts < MaxStarts
    /\ starts' = starts + 1
    /\ listen_pc' = "auth"
    /\ connected' = FALSE
    /\ should_stop' = FALSE
    /\ ws' = "none"
    /\ connect_attempts' = 0
    /\ subscribe_sends' = 0
    /\ received' = <<>>
    /\ dispatched' = <<>>
    /\ listen_exit' = "none"
    /\ UNCHANGED <<orch_vars, match_vars, client_vars, class_vars, session_vars>>

\* the function leaves through `finally: self.connected = False`; leaving the
\* `async with` block closes a connection that was open
listen_ends(why) ==
    /\ listen_pc' = "done"
    /\ connected' = FALSE
    /\ ws' = IF ws = "none" THEN "none" ELSE "closed"
    /\ listen_exit' = why

\* auth_headers = self._get_auth_headers(): {} when signing raised
get_auth_headers(ok) ==
    /\ listen_pc = "auth"
    /\ IF ok
       THEN /\ listen_pc' = "connect"
            /\ UNCHANGED <<connected, ws, listen_exit>>
       ELSE listen_ends("no_auth_headers")
    /\ UNCHANGED <<should_stop, connect_attempts, subscribe_sends, received,
                   dispatched, starts, orch_vars, match_vars, client_vars, class_vars, session_vars>>

\* async with websockets.connect(...) as websocket: self.ws = websocket;
\* self.connected = True
connect(opened) ==
    /\ listen_pc = "connect"
    /\ connect_attempts' = connect_attempts + 1
    /\ IF after_connect(opened) = "done"
       THEN listen_ends("connect_failed")
       ELSE /\ listen_pc' = after_connect(opened)
            /\ ws' = IF opened THEN "open" ELSE ws
            /\ connected' = opened
            /\ UNCHANGED listen_exit
    /\ UNCHANGED <<should_stop, subscribe_sends, received, dispatched, starts,
                   orch_vars, match_vars, client_vars, class_vars, session_vars>>

\* await websocket.send(json.dumps(subscribe_msg)); the send raises when the
\* connection is already closed
send_subscribe(sent) ==
    /\ listen_pc = "subscribe"
    /\ sent => ws = "open"
    /\ subscribe_sends' = subscribe_sends + 1
    /\ IF sent
       THEN /\ listen_pc' = "subscribed"
            /\ UNCHANGED <<connected, ws, listen_exit>>
       ELSE listen_ends("send_failed")
    /\ UNCHANGED <<should_stop, connect_attempts, received, dispatched, starts,
                   orch_vars, match_vars, client_vars, class_vars, session_vars>>

\* message_count = 0; async for message in websocket
listen_starts ==
    /\ listen_pc = "subscribed"
    /\ listen_pc' = "listening"
    /\ UNCHANGED <<connected, should_stop, ws, connect_attempts,
                   subscribe_sends, received, dispatched, listen_exit, starts,
                   orch_vars, match_vars, client_vars, class_vars, session_vars>>

\* one turn of the message loop: the stop check, json.loads, the branch on
\* 'type' and the except clauses
receive_frame(frame) ==
    /\ listen_pc = "listening"
    /\ ws = "open"
    /\ Len(received) < MaxListenerFrames
    /\ received' = Append(received, frame)
    /\ IF stop_requested(should_stop)
       THEN /\ listen_ends("stopped")
            /\ UNCHANGED dispatched
       ELSE /\ dispatched' = IF frame_is_dispatched(frame)
                             THEN Append(dispatched, frame) ELSE dispatched
            /\ IF after_frame(frame) = "done"
               THEN listen_ends("loop_error")
               ELSE UNCHANGED <<listen_pc, connected, ws, listen_exit>>
    /\ UNCHANGED <<should_stop, connect_attempts, subscribe_sends, starts,
                   orch_vars, match_vars, client_vars, class_vars, session_vars>>

\* the iteration ends (the connection was closed) or raises ConnectionClosed
\* (transport error, ping timeout)
connection_lost(why) ==
    /\ listen_pc = "listening"
    /\ why = "transport_error" => ws = "open"
    /\ listen_ends(why)
    /\ UNCHANGED <<should_stop, connect_attempts, subscribe_sends, received,
                   dispatched, starts, orch_vars, match_vars, client_vars, class_vars, session_vars>>

\* disconnect(), run by stop_websocket on a loop of its own: the close of a
\* connection that belongs to the listener's loop either goes through or
\* raises, and a raise skips the assignment after it
disconnect(closes) ==
    /\ listen_pc # "idle"
    /\ should_stop' = TRUE
    /\ IF ws # "none" /\ connected
       THEN IF closes
            THEN ws' = "closed" /\ connected' = FALSE
            ELSE UNCHANGED <<ws, connected>>
       ELSE closes /\ connected' = FALSE /\ UNCHANGED ws
    /\ UNCHANGED <<listen_pc, connect_attempts, subscribe_sends, received,
                   dispatched, listen_exit, starts, orch_vars, match_vars, client_vars, class_vars, session_vars>>

NextListener ==
    \/ client_started
    \/ \E ok \in BOOLEAN : get_auth_headers(ok)
    \/ \E opened \in BOOLEAN : connect(opened)
    \/ \E sent \in BOOLEAN : send_subscribe(sent)
    \/ listen_starts
    \/ \E frame \in ListenerFrames : receive_frame(frame)
    \/ \E why \in {"closed", "transport_error"} : connection_lost(why)
    \/ \E closes \in BOOLEAN : disconnect(closes)

SpecListener == Init /\ [][NextListener]_vars

-----------------------------------------------------------------------------
(* SpecClient: one call of a KalshiClient method with drawn arguments,
   against every answer of the exchange *)

\* the headers _get_auth_headers returns
AuthHeaderNames ==
    {"KALSHI-ACCESS-KEY", "KALSHI-ACCESS-SIGNATURE", "KALSHI-ACCESS-TIMESTAMP"}

\* the request raised inside the session (connection error, timeout)
NoResponse == [status |-> 0, body |-> "none"]

\* the answers to the PUT of confirm_quote; a body is a JSON object, a JSON
\* list, text that is not JSON, or empty
ConfirmResponses ==
    { [status |-> 200, body |-> b] : b \in {"object", "list", "text", "empty"} }
    \cup { [status |-> 204, body |-> "empty"] }
    \cup { [status |-> st, body |-> b] : st \in {400, 500}, b \in {"object", "text"} }
    \cup { NoResponse }

\* ---- confirm_quote ----

\* auth_headers['Content-Type'] = 'application/json': the headers of the
\* request are the auth headers and Content-Type
confirm_headers == AuthHeaderNames \cup {"Content-Type"}

\* requests.Request('PUT', url, headers=auth_headers), prepared on a session
\* whose default headers were cleared, Content-Length deleted: no body; the
\* signature and timestamp are those of this attempt
confirm_request_signed_once(quote_id, attempt) ==
    [method |-> "PUT", path |-> <<"quotes", quote_id, "confirm">>,
     headers |-> confirm_headers, body |-> "none", signed_at |-> 1]

\* auth_headers = self._get_auth_headers("PUT", path) inside the loop: the
\* timestamp and the signature are those of this attempt
confirm_request(quote_id, attempt) ==
    [method |-> "PUT", path |-> <<"quotes", quote_id, "confirm">>,
     headers |-> confirm_headers, body |-> "none", signed_at |-> attempt]

confirm_response_succeeds_200_only(resp) ==
    resp.status = 200 /\ resp.body = "object"

\* the attempt reaches `return result`: status 200 or 204, and for a 200 with
\* text the text parses to a JSON object (result['_request_info'] = ... raises
\* TypeError on a list)
confirm_response_succeeds(resp) ==
    /\ resp.status \in {200, 204}
    /\ (resp.status = 200 /\ resp.body # "empty") => resp.body = "object"

\* result: the parsed body for a 200 with text, else the synthetic result;
\* request_info is added to either
confirm_returns(resp, quote_id, info) ==
    IF resp.status = 200 /\ resp.body # "empty"
    THEN [body |-> "parsed", request_info |-> info]
    ELSE [status |-> "confirmed", quote_id |-> quote_id, request_info |-> info]

\* the exception of a failed attempt, before request_info is attached
confirm_raises(auth_ok, resp) ==
    IF ~auth_ok THEN [type |-> "RuntimeError", status |-> 0]
    ELSE IF resp = NoResponse THEN [type |-> "ConnectionError", status |-> 0]
    ELSE IF resp.status \in {200, 204}
         THEN [type |-> (IF resp.body = "list" THEN "TypeError" ELSE "JSONDecodeError"),
               status |-> 0]
    ELSE [type |-> "Exception", status |-> resp.status]

attach_request_info_always(error, info) ==
    [type |-> error.type, status |-> error.status, request_info |-> info]

\* last_error.request_info = request_info, done only `if request_info`
attach_request_info(error, info) ==
    IF info = NoRequest THEN error
    ELSE [type |-> error.type, status |-> error.status, request_info |-> info]

call_confirm_quote(quote_id) ==
    /\ k_pc = "idle"
    /\ k_call' = [method |-> "confirm_quote", quote_id |-> quote_id]
    /\ k_pc' = "attempt"
    /\ k_attempt' = 1
    /\ UNCHANGED <<k_last_error, k_request_info, k_sent, k_response, k_result,
                   orch_vars, match_vars, lsn_vars, class_vars, session_vars>>

\* one turn of `for attempt in range(1, 4)`: the auth headers, the request,
\* the answer, and either `return result`, the next turn or `raise last_error`
confirm_attempt(auth_ok, resp) ==
    /\ k_pc = "attempt" /\ k_call.method = "confirm_quote"
    /\ LET info == IF auth_ok THEN confirm_request(k_call.quote_id, k_attempt)
                   ELSE k_request_info
           error == [attempt |-> k_attempt]
                    @@ attach_request_info(confirm_raises(auth_ok, resp), info)
       IN
       /\ k_request_info' = info
       /\ k_response' = IF auth_ok THEN resp ELSE NotSent
       /\ k_sent' = IF auth_ok
                    THEN Append(k_sent, confirm_request(k_call.quote_id, k_attempt))
                    ELSE k_sent
       /\ IF auth_ok /\ confirm_response_succeeds(resp)
          THEN /\ k_result' = [kind |-> "returned", attempt |-> k_attempt,
                               value |-> confirm_returns(resp, k_call.quote_id, info)]
               /\ k_pc' = "done"
               /\ UNCHANGED <<k_attempt, k_last_error>>
          ELSE /\ k_last_error' = error
               /\ IF confirm_has_next_attempt(k_attempt)
                  THEN /\ k_attempt' = k_attempt + 1
                       /\ UNCHANGED <<k_pc, k_result>>
                  ELSE /\ k_result' = [kind |-> "raised", error |-> error]
                       /\ k_pc' = "done"
                       /\ UNCHANGED k_attempt
    /\ UNCHANGED <<k_call, orch_vars, match_vars, lsn_vars, class_vars, session_vars>>

ClientQuoteIds == {1, 2}

\* KalshiClient.create_quote as a call of its own (the second definition:
\* it replaces the first one when the class body is executed)

\* the bids a caller may pass: None, a decimal string, a string float() rejects
ClientBids == {NoBid, "0.3000", "abc"}

ClientRfqIds == {"rfq-1", "rfq-2"}

\* `float(yes_bid); float(no_bid)` under `except ValueError`: float(None)
\* raises TypeError, which nothing catches; the first bid is tried first
bids_raise_type_error(yes_bid, no_bid) ==
    \/ yes_bid = NoBid
    \/ ParsesAsFloat(yes_bid) /\ no_bid = NoBid

\* the POST create_quote sends
create_request(rfq_id, yes_bid, no_bid) ==
    [method |-> "POST", path |-> <<"quotes">>,
     headers |-> AuthHeaderNames \cup {"Content-Type"},
     body |-> [rfq_id |-> rfq_id, rest_remainder |-> TRUE]
              @@ create_quote_body(yes_bid, no_bid)]

\* the statuses the exchange may answer with, and the kinds of body: a JSON
\* object without 'error', a JSON object with 'error' {message, code}, the
\* same with a message that contains "HTTP", a body resp.json() cannot parse
CreateStatuses == {200, 201, 204, 400, 429}
CreateBodies == {"object", "error_object", "error_object_http", "text"}
CreateResponses ==
    [status : CreateStatuses, body : CreateBodies] \cup {NoResponse}

create_response_succeeds_any_2xx(resp) ==
    resp # NoResponse /\ resp.status \in 200..299 /\ resp.body # "text"

\* `if resp.status_code not in [200, 201]` is false and resp.json() parses
create_response_succeeds(resp) ==
    resp # NoResponse /\ resp.status \in {200, 201} /\ resp.body # "text"

\* the exception create_quote ends with: its type, the status its message
\* names (0: none) and what the message holds of the response
create_raises(resp) ==
    IF resp = NoResponse
    THEN [type |-> "ConnectionError", status |-> 0, text |-> "none"]
    ELSE IF resp.status \in {200, 201}
    THEN [type |-> "JSONDecodeError", status |-> 0, text |-> "parse_error"]
    ELSE CASE resp.body = "object" ->
                [type |-> "Exception", status |-> resp.status, text |-> "body"]
           [] resp.body = "error_object" ->
                [type |-> "Exception", status |-> resp.status,
                 text |-> "message_and_code"]
           [] resp.body = "error_object_http" ->
                [type |-> "Exception", status |-> 0, text |-> "message_and_code"]
           [] resp.body = "text" ->
                [type |-> "Exception", status |-> resp.status,
                 text |-> "parse_error"]

\* the call up to `self._session.post(...)`
call_create_quote(rfq_id, yes_bid, no_bid, auth_ok) ==
    /\ k_pc = "idle"
    /\ k_call' = [method |-> "create_quote", rfq_id |-> rfq_id,
                  yes_bid |-> yes_bid, no_bid |-> no_bid]
    /\ IF bids_raise_type_error(yes_bid, no_bid)
       THEN /\ k_result' = [kind |-> "raised",
                            error |-> [type |-> "TypeError", status |-> 0,
                                       text |-> "none"]]
            /\ k_pc' = "done"
            /\ UNCHANGED k_sent
       ELSE IF ~auth_ok
       THEN /\ k_result' = [kind |-> "raised",
                            error |-> [type |-> "RuntimeError", status |-> 0,
                                       text |-> "none"]]
            /\ k_pc' = "done"
            /\ UNCHANGED k_sent
       ELSE /\ k_sent' = Append(k_sent, create_request(rfq_id, yes_bid, no_bid))
            /\ k_pc' = "posted"
            /\ UNCHANGED k_result
    /\ UNCHANGED <<k_attempt, k_last_error, k_request_info, k_response,
                   orch_vars, match_vars, lsn_vars, class_vars, session_vars>>

\* the answer to the POST, up to `return result` or the exception
create_quote_answered(resp) ==
    /\ k_pc = "posted" /\ k_call.method = "create_quote"
    /\ k_response' = resp
    /\ k_result' = IF create_response_succeeds(resp)
                   THEN [kind |-> "returned", value |-> resp.body]
                   ELSE [kind |-> "raised", error |-> create_raises(resp)]
    /\ k_pc' = "done"
    /\ UNCHANGED <<k_call, k_attempt, k_last_error, k_request_info, k_sent,
                   orch_vars, match_vars, lsn_vars, class_vars, session_vars>>

\* The other signed wrappers: one request, then resp.raise_for_status()

Wrappers ==
    {"accept_quote", "create_rfq", "get_quotes", "get_market",
     "get_market_orderbook", "create_order"}

WrapperResponses == [status : {200, 201, 400, 429, 500}, body : {"object", "text"}]

wrapper_request(wrapper) ==
    [method |-> CASE wrapper = "accept_quote" -> "PUT"
                  [] wrapper \in {"create_rfq", "create_order"} -> "POST"
                  [] OTHER -> "GET",
     path |-> <<wrapper>>]

\* requests' Response.raise_for_status: HTTPError, with the response, for
\* 4xx and 5xx only
raise_for_status(resp) ==
    IF resp.status \in 400..599
    THEN [type |-> "HTTPError", status |-> resp.status, message |-> "http_error"]
    ELSE NoError

wrapper_rate_limited_everywhere(wrapper, resp) == resp.status = 429

\* `if resp.status_code == 429: raise Exception("Rate limited ...")`: only
\* accept_quote has this test
wrapper_rate_limited(wrapper, resp) ==
    wrapper = "accept_quote" /\ resp.status = 429

\* the exception the wrapper ends with, NoError when it returns
wrapper_raises(wrapper, resp) ==
    IF wrapper_rate_limited(wrapper, resp)
    THEN [type |-> "Exception", status |-> 429, message |-> "rate_limited"]
    ELSE IF wrapper = "create_order" /\ resp.status # 201 /\ resp.body = "object"
    THEN [type |-> "Exception", status |-> 0, message |-> "api_error"]
    ELSE IF raise_for_status(resp) # NoError
    THEN raise_for_status(resp)
    ELSE IF resp.body = "text" /\ wrapper # "accept_quote"
    THEN [type |-> "JSONDecodeError", status |-> 0, message |-> "parse_error"]
    ELSE NoError

\* one call of a wrapper, from the request to the return or the exception
call_wrapper(wrapper, resp) ==
    /\ k_pc = "idle"
    /\ k_call' = [method |-> wrapper]
    /\ k_sent' = Append(k_sent, wrapper_request(wrapper))
    /\ k_response' = resp
    /\ k_result' = IF wrapper_raises(wrapper, resp) = NoError
                   THEN [kind |-> "returned", value |-> resp.body]
                   ELSE [kind |-> "raised", error |-> wrapper_raises(wrapper, resp)]
    /\ k_pc' = "done"
    /\ UNCHANGED <<k_attempt, k_last_error, k_request_info,
                   orch_vars, match_vars, lsn_vars, class_vars, session_vars>>

NextClient ==
    \/ \E wrapper \in Wrappers, resp \in WrapperResponses : call_wrapper(wrapper, resp)
    \/ \E quote_id \in ClientQuoteIds : call_confirm_quote(quote_id)
    \/ \E auth_ok \in BOOLEAN, resp \in ConfirmResponses : confirm_attempt(auth_ok, resp)
    \/ \E rfq_id \in ClientRfqIds, yes_bid, no_bid \in ClientBids, auth_ok \in BOOLEAN :
          call_create_quote(rfq_id, yes_bid, no_bid, auth_ok)
    \/ \E resp \in CreateResponses : create_quote_answered(resp)

SpecClient == Init /\ [][NextClient]_vars

-----------------------------------------------------------------------------
(* extract_market_type and SpecClassify *)

\* `sub in s` for two str
In(sub, s) ==
    \E i \in 0..(Len(s) - Len(sub)) : SubSeq(s, i + 1, i + Len(sub)) = sub

is_spread_sprd_only(ticker_upper) == In(<<"S", "P", "R", "D">>, ticker_upper)

\* 'SPRD' in ticker_upper or 'SPREAD' in ticker_upper
is_spread(ticker_upper) ==
    In(<<"S", "P", "R", "D">>, ticker_upper) \/ In(<<"S", "P", "R", "E", "A", "D">>, ticker_upper)

\* 'TOTL' in ticker_upper or 'TOTAL' in ticker_upper or 'OVER' in side_upper
\* or 'UNDER' in side_upper
is_total(ticker_upper, side_upper) ==
    \/ In(<<"T", "O", "T", "L">>, ticker_upper)
    \/ In(<<"T", "O", "T", "A", "L">>, ticker_upper)
    \/ In(<<"O", "V", "E", "R">>, side_upper)
    \/ In(<<"U", "N", "D", "E", "R">>, side_upper)

\* the NFL single-game branch: which kind of player prop
single_game_prop(ticker_upper) ==
    IF In(<<"P", "A", "S", "S">>, ticker_upper) \/ In(<<"Y", "D", "S">>, ticker_upper)
    THEN <<"NFL", "Player Props - Passing">>
    ELSE IF In(<<"R", "U", "S", "H">>, ticker_upper) THEN <<"NFL", "Player Props - Rushing">>
    ELSE IF In(<<"R", "E", "C">>, ticker_upper) THEN <<"NFL", "Player Props - Receiving">>
    ELSE <<"NFL", "Player Props - Other">>

\* extract_market_type(leg_ticker, side) for two str
extract_market_type(leg_ticker, side) ==
    LET ticker_upper == Upper(leg_ticker)
        side_upper == Upper(side)
    IN
    IF In(<<"N", "F", "L">>, ticker_upper) THEN
        IF is_spread(ticker_upper) THEN <<"NFL", "Spreads">>
        ELSE IF is_total(ticker_upper, side_upper) THEN <<"NFL", "Totals">>
        ELSE IF In(<<"N", "F", "L", "G", "A", "M", "E">>, ticker_upper) THEN <<"NFL", "Moneylines">>
        ELSE IF In(<<"N", "F", "L", "A", "N", "Y", "T", "D">>, ticker_upper) \/ In(<<"N", "F", "L", "F", "I", "R", "S", "T", "T", "D">>, ticker_upper)
             THEN <<"NFL", "Player Props - Touchdowns">>
        ELSE IF In(<<"N", "F", "L", "S", "I", "N", "G", "L", "E", "G", "A", "M", "E">>, ticker_upper) \/ In(<<"V", "E", "N", "F", "L", "S", "I", "N", "G", "L", "E", "G", "A", "M", "E">>, ticker_upper)
             THEN single_game_prop(ticker_upper)
        ELSE <<"NFL", "Other">>
    ELSE IF In(<<"N", "B", "A">>, ticker_upper) THEN
        IF is_spread(ticker_upper) THEN <<"NBA", "Spreads">>
        ELSE IF is_total(ticker_upper, side_upper) THEN <<"NBA", "Totals">>
        ELSE IF In(<<"N", "B", "A", "G", "A", "M", "E">>, ticker_upper) THEN <<"NBA", "Moneylines">>
        ELSE IF In(<<"N", "B", "A", "P", "T", "S">>, ticker_upper) \/ In(<<"P", "O", "I", "N", "T", "S">>, ticker_upper)
             THEN <<"NBA", "Player Props - Points">>
        ELSE IF In(<<"A", "S", "T">>, ticker_upper) \/ In(<<"A", "S", "S", "I", "S", "T", "S">>, ticker_upper)
             THEN <<"NBA", "Player Props - Assists">>
        ELSE IF In(<<"R", "E", "B">>, ticker_upper) \/ In(<<"R", "E", "B", "O", "U", "N", "D", "S">>, ticker_upper)
             THEN <<"NBA", "Player Props - Rebounds">>
        ELSE IF In(<<"T", "H", "R", "E", "E">>, ticker_upper) \/ In(<<"3", "P", "T">>, ticker_upper)
             THEN <<"NBA", "Player Props - Threes">>
        ELSE IF In(<<"N", "B", "A", "S", "I", "N", "G", "L", "E", "G", "A", "M", "E">>, ticker_upper) \/ In(<<"V", "E", "N", "B", "A", "S", "I", "N", "G", "L", "E", "G", "A", "M", "E">>, ticker_upper)
             THEN <<"NBA", "Player Props - Other">>
        ELSE <<"NBA", "Other">>
    ELSE IF In(<<"N", "H", "L">>, ticker_upper) THEN
        IF is_spread(ticker_upper) THEN <<"NHL", "Spreads">>
        ELSE IF is_total(ticker_upper, side_upper) THEN <<"NHL", "Totals">>
        ELSE IF In(<<"N", "H", "L", "G", "A", "M", "E">>, ticker_upper) THEN <<"NHL", "Moneylines">>
        ELSE <<"NHL", "Other">>
    ELSE IF In(<<"S", "P", "O", "R", "T", "S", "M", "U", "L", "T", "I", "G", "A", "M", "E">>, ticker_upper)
    THEN <<"Other", "Multi-Game Parlays">>
    ELSE <<"Other", "Unknown">>

extract_market_type_reraises(error) == <<"raised", error>>

\* `except Exception as e: ... return ('Other', 'Unknown')`
extract_market_type_except(error) == <<"Other", "Unknown">>

\* the types a value decoded from JSON may have besides str; none of them
\* has an upper() method
NotStrTypes == {"NoneType", "int", "list"}

\* the whole function: leg_ticker.upper() and side.upper() raise
\* AttributeError inside the try block when the value is not a str
extract_market_type_try(types, leg_ticker, side) ==
    IF types[1] # "str" \/ types[2] # "str"
    THEN extract_market_type_except("AttributeError")
    ELSE extract_market_type(leg_ticker, side)

MaxTickerTokens == 3  \* pieces per leg ticker

\* the pieces leg tickers are assembled from: the exchange's prefix, the
\* league keywords, the market keywords, in either case
TickerTokens ==
    {<<"K", "X">>,
     <<"N", "F", "L">>,
     <<"n", "b", "a">>,
     <<"N", "H", "L">>,
     <<"S", "P", "R", "D">>,
     <<"s", "p", "r", "e", "a", "d">>,
     <<"T", "O", "T", "L">>,
     <<"T", "O", "T", "A", "L">>,
     <<"G", "A", "M", "E">>,
     <<"A", "N", "Y", "T", "D">>,
     <<"S", "I", "N", "G", "L", "E", "G", "A", "M", "E">>,
     <<"P", "A", "S", "S">>,
     <<"A", "S", "T">>,
     <<"S", "P", "O", "R", "T", "S", "M", "U", "L", "T", "I", "G", "A", "M", "E">>}

\* the sides a leg may carry
ClassifySides ==
    {<<"y", "e", "s">>, <<"n", "o">>, <<"o", "v", "e", "r">>, <<"U", "N", "D", "E", "R">>}

RECURSIVE Joined(_)
\* "".join(tokens)
Joined(tokens) ==
    IF tokens = <<>> THEN <<>> ELSE Head(tokens) \o Joined(Tail(tokens))

\* the leg's market_ticker grows by one piece
ticker_extended(token) ==
    /\ c_type = <<>>
    /\ c_types[1] = "str"
    /\ Len(c_tokens) < MaxTickerTokens
    /\ c_tokens' = Append(c_tokens, token)
    /\ UNCHANGED <<c_side, c_type, c_types, orch_vars, match_vars, lsn_vars, client_vars, session_vars>>

\* the leg carries a side
side_given(side) ==
    /\ c_type = <<>>
    /\ c_side = <<>>
    /\ c_types[2] = "str"
    /\ c_side' = side
    /\ UNCHANGED <<c_tokens, c_type, c_types, orch_vars, match_vars, lsn_vars, client_vars, session_vars>>

\* sport, category = extract_market_type(leg_market, side)
leg_classified ==
    /\ c_type = <<>>
    /\ c_type' = extract_market_type_try(c_types, Joined(c_tokens), c_side)
    /\ UNCHANGED <<c_tokens, c_side, c_types, orch_vars, match_vars, lsn_vars, client_vars, session_vars>>

NextClassify ==
    \/ \E token \in TickerTokens : ticker_extended(token)
    \/ \E side \in ClassifySides : side_given(side)
    \/ leg_classified

SpecClassify == Init /\ [][NextClassify]_vars

\* SpecTotal: the same, with values that are not str

\* the leg's market_ticker is not a str
ticker_not_str(type) ==
    /\ c_type = <<>>
    /\ c_tokens = <<>>
    /\ c_types[1] = "str"
    /\ c_types' = <<type, c_types[2]>>
    /\ UNCHANGED <<c_tokens, c_side, c_type, orch_vars, match_vars, lsn_vars, client_vars, session_vars>>

\* the leg's side is not a str
side_not_str(type) ==
    /\ c_type = <<>>
    /\ c_side = <<>>
    /\ c_types[2] = "str"
    /\ c_types' = <<c_types[1], type>>
    /\ UNCHANGED <<c_tokens, c_side, c_type, orch_vars, match_vars, lsn_vars, client_vars, session_vars>>

NextTotal ==
    \/ NextClassify
    \/ \E type \in NotStrTypes : ticker_not_str(type)
    \/ \E type \in NotStrTypes : side_not_str(type)

SpecTotal == Init /\ [][NextTotal]_vars

-----------------------------------------------------------------------------
(* SpecConfirm: app.py's confirm_quote, from the credentials to the record *)

\* what confirm_quote finds at its start: both credentials and a key file
\* that loads; no key id; no key path; a path whose file does not load
CredentialStates == {"present", "no_key_id", "no_key_path", "key_not_loaded"}

\* `if not api_key_id or not private_key_path: raise RuntimeError(...)`
credentials_missing(creds) == creds \in {"no_key_id", "no_key_path"}

private_key_loaded_always(creds) == TRUE

\* KalshiClient.__init__ loaded the key, so _get_auth_headers does not raise
private_key_loaded(creds) == creds = "present"

\* what no step of confirm_quote changes
confirm_frame ==
    <<rfq_history, quote_history, auto_confirm_enabled, QUOTE_YES_BID,
      QUOTE_NO_BID, selected_target_legs, listener, exchange_quotes,
      operator_actions, rfq_received, quote_emitted, confirm_writes,
      auto_attempts, match_vars, lsn_vars, class_vars, session_vars>>

\* a quote_accepted frame with auto-confirm on: the record, and the task
accepted_for_confirm(quote_id) ==
    /\ running = NoTask
    /\ nframes < MaxFrames
    /\ nframes' = nframes + 1
    /\ accepted_quotes' = Append(accepted_quotes, accepted_entry(quote_id, TRUE))
    /\ ready' = ready \o accepted_tasks(quote_id, TRUE)
    /\ UNCHANGED <<running, last_emit, client_vars, confirm_frame>>

\* the loop starts the task: confirm_quote reads the credentials
confirm_quote_starts(creds) ==
    /\ running = NoTask
    /\ ready # <<>>
    /\ running' = [kind |-> "confirm_quote", pc |-> "credentials",
                   quote_id |-> Head(ready).quote_id, creds |-> creds]
    /\ ready' = Tail(ready)
    /\ UNCHANGED <<accepted_quotes, nframes, last_emit, client_vars, confirm_frame>>

\* the test of the credentials, then KalshiClient(...) and the call of
\* client.confirm_quote(quote_id)
confirm_quote_credentials ==
    /\ IsStep("confirm_quote", "credentials")
    /\ IF credentials_missing(running.creds)
       THEN /\ running' = SetKey(running, "pc", "raised")
            /\ UNCHANGED client_vars
       ELSE /\ running' = SetKey(running, "pc", "client")
            /\ k_call' = [method |-> "confirm_quote", quote_id |-> running.quote_id]
            /\ k_pc' = "attempt"
            /\ k_attempt' = 1
            /\ UNCHANGED <<k_last_error, k_request_info, k_sent, k_response, k_result>>
    /\ UNCHANGED <<accepted_quotes, ready, nframes, last_emit, confirm_frame>>

\* one attempt of client.confirm_quote, inside the task
confirm_quote_client_attempt(resp) ==
    /\ IsStep("confirm_quote", "client")
    /\ confirm_attempt(private_key_loaded(running.creds), resp)

\* the error text the except branch records
confirm_quote_error(task) ==
    IF task.pc = "raised" THEN "RuntimeError" ELSE k_result.error.type

\* the rest of confirm_quote: the try branch after the client returned, or
\* the except branch; the client object is dropped
confirm_quote_ends ==
    /\ running.kind = "confirm_quote"
    /\ running.pc = "raised" \/ (running.pc = "client" /\ k_pc = "done")
    /\ LET returned == running.pc = "client" /\ k_result.kind = "returned" IN
       /\ accepted_quotes' =
            IF returned
            THEN record_confirmed(accepted_quotes, running.quote_id, "result")
            ELSE record_confirmation_error(accepted_quotes, running.quote_id,
                                           confirm_quote_error(running))
       /\ last_emit' = confirm_emits(accepted_quotes, running.quote_id, returned)
    /\ running' = NoTask
    /\ k_call' = NoCall /\ k_pc' = "idle" /\ k_attempt' = 0
    /\ k_last_error' = NoError /\ k_request_info' = NoRequest
    /\ k_sent' = <<>> /\ k_response' = NotSent /\ k_result' = NoResult
    /\ UNCHANGED <<ready, nframes, confirm_frame>>

NextConfirm ==
    \/ \E quote_id \in ClientQuoteIds : accepted_for_confirm(quote_id)
    \/ \E creds \in CredentialStates : confirm_quote_starts(creds)
    \/ confirm_quote_credentials
    \/ \E resp \in ConfirmResponses : confirm_quote_client_attempt(resp)
    \/ confirm_quote_ends

SpecConfirm == Init /\ [][NextConfirm]_vars

-----------------------------------------------------------------------------
(* SpecSession: start_websocket, stop_websocket and the threads they start *)

\* how start_websocket may go: credentials missing; NamedTemporaryFile
\* raises; an exception after the key was written (api_key[:10] on a key
\* id that is not a str); the thread is started
StartOutcomes == {"no_credentials", "tempfile_fails", "fails_after_write", "started"}

\* a SimpleWebSocketClient as constructed, its thread not yet connected
NewThread ==
    [pc |-> "starting", should_stop |-> FALSE, connected |-> FALSE,
     ws |-> "none", dispatched |-> 0]

\* temp_key_file = NamedTemporaryFile(..., delete=False); write; close
start_writes_key_file(outcome) == outcome \in {"fails_after_write", "started"}

\* socketio 'start_websocket': nothing looks at ws_client or ws_connected
\* before the new client and its thread are made
session_start(outcome) ==
    /\ Len(ws_threads) + temp_key_files < 2 * MaxStarts
    /\ outcome = "started" => Len(ws_threads) < MaxStarts
    /\ temp_key_files' = IF start_writes_key_file(outcome)
                         THEN temp_key_files + 1 ELSE temp_key_files
    /\ IF outcome = "started"
       THEN /\ ws_threads' = Append(ws_threads, NewThread)
            /\ ws_client' = Len(ws_threads) + 1
            /\ ws_connected' = TRUE
            /\ status_emitted' = [connected |-> TRUE, error |-> "none"]
       ELSE /\ status_emitted' = [connected |-> FALSE, error |-> outcome]
            /\ UNCHANGED <<ws_threads, ws_client, ws_connected>>
    /\ UNCHANGED <<orch_vars, match_vars, lsn_vars, client_vars, class_vars>>

\* socketio 'stop_websocket': disconnect() of the current client on a loop
\* of the request thread; the close of a connection that belongs to the
\* listener's loop goes through or raises, and a raise skips what follows
session_stop(closes) ==
    /\ IF ws_client # 0
       THEN LET t == ws_threads[ws_client]
                closing == t.ws # "none" /\ t.connected
            IN
            IF closing /\ ~closes
            THEN /\ ws_threads' = [ws_threads EXCEPT ![ws_client].should_stop = TRUE]
                 /\ status_emitted' = [connected |-> FALSE, error |-> "close_raised"]
                 /\ UNCHANGED <<ws_client, ws_connected>>
            ELSE /\ ws_threads' =
                      [ws_threads EXCEPT ![ws_client] =
                          [t EXCEPT !.should_stop = TRUE, !.connected = FALSE,
                                    !.ws = IF closing THEN "closed" ELSE t.ws]]
                 /\ ws_connected' = FALSE
                 /\ ws_client' = 0
                 /\ status_emitted' = [connected |-> FALSE, error |-> "none"]
       ELSE /\ ws_connected' = FALSE
            /\ status_emitted' = [connected |-> FALSE, error |-> "none"]
            /\ UNCHANGED <<ws_threads, ws_client>>
    /\ UNCHANGED <<temp_key_files, orch_vars, match_vars, lsn_vars, client_vars,
                   class_vars>>

\* the thread's connect_and_listen ends: `finally: self.connected = False`
thread_ended(t) ==
    [t EXCEPT !.pc = "done", !.connected = FALSE,
              !.ws = IF t.ws = "none" THEN "none" ELSE "closed"]

\* connect_and_listen up to the message loop: the auth headers, the
\* connection, the subscription
thread_connects(i, how) ==
    /\ i \in DOMAIN ws_threads
    /\ ws_threads[i].pc = "starting"
    /\ ws_threads' =
         [ws_threads EXCEPT ![i] =
             IF how = "opened"
             THEN [@ EXCEPT !.pc = "listening", !.connected = TRUE, !.ws = "open"]
             ELSE thread_ended(@)]
    /\ UNCHANGED <<ws_connected, ws_client, temp_key_files, status_emitted,
                   orch_vars, match_vars, lsn_vars, client_vars, class_vars>>

\* one turn of the message loop: `if self.should_stop: break`, or the frame
\* goes to handle_ws_message
thread_receives(i) ==
    /\ i \in DOMAIN ws_threads
    /\ ws_threads[i].pc = "listening" /\ ws_threads[i].ws = "open"
    /\ ws_threads[i].should_stop \/ ws_threads[i].dispatched < MaxListenerFrames
    /\ ws_threads' =
         [ws_threads EXCEPT ![i] =
             IF @.should_stop THEN thread_ended(@)
             ELSE [@ EXCEPT !.dispatched = @ + 1]]
    /\ UNCHANGED <<ws_connected, ws_client, temp_key_files, status_emitted,
                   orch_vars, match_vars, lsn_vars, client_vars, class_vars>>

\* the connection is closed or lost: the iteration ends or raises
thread_loses_connection(i) ==
    /\ i \in DOMAIN ws_threads
    /\ ws_threads[i].pc = "listening"
    /\ ws_threads' = [ws_threads EXCEPT ![i] = thread_ended(@)]
    /\ UNCHANGED <<ws_connected, ws_client, temp_key_files, status_emitted,
                   orch_vars, match_vars, lsn_vars, client_vars, class_vars>>

NextSession ==
    \/ \E outcome \in StartOutcomes : session_start(outcome)
    \/ \E closes \in BOOLEAN : session_stop(closes)
    \/ \E i \in 1..MaxStarts + 1,
          how \in {"no_auth_headers", "connect_failed", "opened"} :
          thread_connects(i, how)
    \/ \E i \in 1..MaxStarts + 1 : thread_receives(i)
    \/ \E i \in 1..MaxStarts + 1 : thread_loses_connection(i)

SpecSession == Init /\ [][NextSession]_vars

-----------------------------------------------------------------------------
(* Properties *)

Last(list) == list[Len(list)]
Has(d, k) == k \in DOMAIN d

\* the step in which the running task of this kind ends
TaskEnds(kind) == running.kind = kind /\ running' = NoTask

\* the step in which handle_ws_message handles a quote_accepted frame
AcceptedHandled == Len(accepted_quotes') = Len(accepted_quotes) + 1

\* the RFQ with this id is recorded, and recorded as a match
RecordedAsMatch(history, rfq_id) ==
    \E i \in DOMAIN history : history[i].rfq_id = rfq_id /\ history[i].matches

\* the operator emptied the target list between the matcher's two reads of
\* selected_target_legs
TargetsClearedMidMatch ==
    IsStep("handle_rfq", "match_subset") /\ selected_target_legs = <<>>

(* C1: for each handled rfq_created event, client.create_quote is called
   exactly once when the matcher's result for the RFQ is True and not at all
   when it is False; the result is the matcher's value on the target list of
   that moment (unless the operator emptied the list while the matcher ran);
   the call carries the bids configured at the moment of the call; a failed
   creation is not retried (the count never exceeds 1, also after
   create_quote raised). *)
C1_QuoteOncePerMatch ==
    [][ /\ (running.kind = "handle_rfq" => running.create_quote_calls <= 1)
        /\ (Len(rfq_history') = Len(rfq_history) + 1 /\ ~TargetsClearedMidMatch) =>
              Last(rfq_history').matches =
                  matches_target_market(running.legs, selected_target_legs)
        /\ (TaskEnds("handle_rfq") =>
              IF RecordedAsMatch(rfq_history', running.rfq_id)
              THEN /\ running.create_quote_calls = 1
                   /\ running.args = running.configured
              ELSE running.create_quote_calls = 0)
      ]_vars

\* a matching RFQ was quoted after the operator changed a bid, and the attempt failed
C1_Witness ==
    /\ running = NoTask
    /\ ready = <<>>
    /\ \E i \in DOMAIN rfq_history : rfq_history[i].matches
    /\ \E i \in DOMAIN rfq_history : ~rfq_history[i].matches
    /\ \E i \in DOMAIN quote_history :
          /\ quote_history[i].status = "error"
          /\ quote_history[i].yes_bid = "abc"

(* C2: for a non-empty target list S, the matcher returns True iff every
   element of S, uppercased, equals uppercase(side + ':' + market_ticker) of
   some leg of the RFQ. *)
C2_MatchIffSubset ==
    (m_done /\ m_targets # <<>>) =>
        (m_result <=>
            \A i \in DOMAIN m_targets :
                \E j \in DOMAIN m_legs :
                    Upper(m_targets[i]) =
                        Upper(m_legs[j].side \o <<":">> \o m_legs[j].market_ticker))

\* a match of a lower-case target against an RFQ that carries a further leg
C2_Witness ==
    /\ m_done
    /\ m_result
    /\ m_targets = << <<"y", ":", "a">> >>
    /\ Len(m_legs) = 2
    /\ m_legs[1] # m_legs[2]

(* C3: with an empty target list the matcher returns False for every RFQ,
   whatever its legs, the empty leg list included. *)
C3_EmptyTargetsNeverMatch ==
    (m_done /\ m_targets = <<>>) => ~m_result

\* the matcher has been applied to an RFQ with legs and an empty target list
C3_Witness ==
    /\ m_done
    /\ m_targets = <<>>
    /\ Len(m_legs) >= 1
    /\ ~m_result

(* C4: a send_quote call that ends has appended exactly one entry to
   quote_history, 'sent' when create_quote returned and 'error' when it
   raised; while the call runs nothing is appended, and no other step appends
   to quote_history. *)
C4_OneEntryPerSendQuote ==
    [][ /\ (running.kind = "handle_rfq" /\ Has(running, "start_len")
              => Len(quote_history) = running.start_len)
        /\ IF TaskEnds("handle_rfq") /\ Has(running, "start_len")
           THEN /\ Len(quote_history') = running.start_len + 1
                /\ SubSeq(quote_history', 1, Len(quote_history)) = quote_history
                /\ Last(quote_history').rfq_id = running.rfq_id
                /\ Last(quote_history').status =
                      (IF running.outcome \in {"created", "created_no_id"}
                       THEN "sent" ELSE "error")
           ELSE Len(quote_history') = Len(quote_history)
      ]_vars

\* one send_quote ended with a 'sent' entry and another with an 'error' entry
C4_Witness ==
    /\ running = NoTask
    /\ \E i \in DOMAIN quote_history : quote_history[i].status = "sent"
    /\ \E i \in DOMAIN quote_history : quote_history[i].status = "error"

\* the running task is a confirm_quote whose client call is at this point
ConfirmAt(pc) == running.kind = "confirm_quote" /\ running.pc = pc

\* the last attempt of the running client.confirm_quote call failed
LastFailed == ~confirm_attempt_succeeds(running.outcome)

\* what holds of a client.confirm_quote call at each of its points
AttemptsInBounds ==
    running.kind = "confirm_quote" =>
        /\ running.requests_sent <= 3
        /\ running.client_calls <= 1
        /\ ConfirmAt("returned") =>
              /\ running.requests_sent >= 1
              /\ ~LastFailed
        /\ ConfirmAt("raised") =>
              /\ running.requests_sent = 3
              /\ LastFailed
        /\ ConfirmAt("attempt") =>
              /\ running.requests_sent < 3
              /\ running.requests_sent = running.attempt - 1
              /\ running.requests_sent >= 1 => LastFailed

(* C5: client.confirm_quote makes at most 3 attempts and stops at the first
   success: a request is sent only when no earlier attempt succeeded, each
   attempt sends one request, the call returns exactly when an attempt
   succeeds (so after fail, fail, succeed it returns after exactly 3), it
   raises only after exactly 3 failed attempts, and while fewer than 3
   attempts have failed it goes on to the next attempt. *)
C5_ThreeAttempts ==
    [][ /\ AttemptsInBounds
        /\ AttemptsInBounds'
        /\ (running.kind = "confirm_quote" /\ running'.kind = "confirm_quote"
              /\ running'.requests_sent # running.requests_sent) =>
              /\ ConfirmAt("attempt")
              /\ running'.requests_sent = running.requests_sent + 1
              /\ running'.pc = (IF confirm_attempt_succeeds(running'.outcome)
                                THEN "returned"
                                ELSE IF running'.requests_sent < 3 THEN "attempt"
                                ELSE "raised")
      ]_vars

\* fail, fail, succeed: the call returns after exactly 3 attempts
C5_Witness ==
    /\ ConfirmAt("returned")
    /\ running.requests_sent = 3
    /\ confirm_attempt_succeeds(running.outcome)

\* the record confirm_quote (app.py) writes: the first one with its quote id
WrittenRecord == FirstWithQuoteId(accepted_quotes, running.quote_id)

(* C6: when the orchestrator's confirm_quote ends it has called
   client.confirm_quote exactly once; if the client returned, the record with
   that quote id has confirmed = True and a confirmation time and
   'quote_confirmed' is emitted; if the client raised, the record has
   confirmed = False and confirmation_error equal to the error of the last
   attempt and 'quote_confirmation_error' is emitted; the task ends in both
   cases and schedules no further confirmation. *)
C6_OutcomeOnRecord ==
    [][ TaskEnds("confirm_quote") =>
          /\ running.client_calls = 1
          /\ ready' = ready
          /\ Len(accepted_quotes') = Len(accepted_quotes)
          /\ WrittenRecord # 0 =>
                LET quote == accepted_quotes'[WrittenRecord] IN
                /\ quote.quote_id = running.quote_id
                /\ running.pc = "returned" =>
                      /\ quote.confirmed = TRUE
                      /\ Has(quote, "confirmation_time")
                      /\ last_emit' = "quote_confirmed"
                /\ running.pc = "raised" =>
                      /\ quote.confirmed = FALSE
                      /\ quote.confirmation_error = confirm_error(running.outcome)
                      /\ last_emit' = "quote_confirmation_error"
      ]_vars

\* a confirmation that raised has left its error on the record
C6_Witness ==
    /\ running = NoTask
    /\ last_emit = "quote_confirmation_error"
    /\ \E i \in DOMAIN accepted_quotes :
          /\ Has(accepted_quotes[i], "confirmation_error")
          /\ accepted_quotes[i].confirmation_error = confirm_error("network_error")
          /\ ~accepted_quotes[i].confirmed

(* C7: with auto-confirm disabled, handling a quote_accepted event appends
   exactly one record, with confirmed = False and auto_confirmed = False, and
   schedules no task. *)
C7_NoAutoConfirmWhenDisabled ==
    [][ (AcceptedHandled /\ ~auto_confirm_enabled) =>
          /\ accepted_quotes' = Append(accepted_quotes, Last(accepted_quotes'))
          /\ Last(accepted_quotes').confirmed = FALSE
          /\ Last(accepted_quotes').auto_confirmed = FALSE
          /\ ready' = ready
          /\ running' = running
      ]_vars

\* a quote was accepted with auto-confirm off and nothing is left to run
C7_Witness ==
    /\ ~auto_confirm_enabled
    /\ operator_actions = 0
    /\ Len(accepted_quotes) = 1
    /\ ~accepted_quotes[1].auto_confirmed
    /\ ~accepted_quotes[1].confirmed
    /\ ready = <<>>
    /\ running = NoTask

(* C8: with auto-confirm enabled, handling a quote_accepted event appends one
   record with auto_confirmed = True and schedules exactly one confirm_quote
   task for that quote id; the handler does not wait for it: when the handler
   returns the task has not started and the record is not yet confirmed. *)
C8_OneAutoConfirmTask ==
    [][ (AcceptedHandled /\ auto_confirm_enabled) =>
          /\ accepted_quotes' = Append(accepted_quotes, Last(accepted_quotes'))
          /\ Last(accepted_quotes').auto_confirmed = TRUE
          /\ Last(accepted_quotes').confirmed = FALSE
          /\ ready' = Append(ready, [kind |-> "confirm_quote",
                                     quote_id |-> Last(accepted_quotes').quote_id])
          /\ running' = running
      ]_vars

\* the confirmation of an accepted quote is scheduled and has not started
C8_Witness ==
    /\ auto_confirm_enabled
    /\ Len(accepted_quotes) = 1
    /\ accepted_quotes[1].auto_confirmed
    /\ ~accepted_quotes[1].confirmed
    /\ ready = <<[kind |-> "confirm_quote", quote_id |-> accepted_quotes[1].quote_id]>>
    /\ running = NoTask

IsMatched(entry) == Has(entry, "matched") /\ entry.matched = TRUE

(* C9: matched is monotone: an entry of quote_history whose matched is True
   keeps matched = True in every later state, and stays at its position. *)
C9_MatchedStaysTrue ==
    [][ /\ Len(quote_history') >= Len(quote_history)
        /\ \A i \in DOMAIN quote_history :
              IsMatched(quote_history[i]) => IsMatched(quote_history'[i])
      ]_vars

\* a matched entry has seen a later quote event with another quote id
C9_Witness ==
    /\ nframes = MaxFrames
    /\ Len(quote_history) >= 2
    /\ IsMatched(quote_history[1])
    /\ ~IsMatched(quote_history[2])

(* C10: each record of accepted_quotes has its confirmed field written by at
   most one confirmation outcome, and at most one automatic confirmation is
   scheduled for it. *)
C10_ConfirmedWrittenOnce ==
    \A i \in DOMAIN accepted_quotes :
        /\ confirm_writes[i] <= 1
        /\ auto_attempts[i] <= 1

\* the number of records of rfq_history for the RFQ with this id
Records(history, rfq_id) ==
    Cardinality({i \in DOMAIN history : history[i].rfq_id = rfq_id})

(* C11 (as amended): every handled rfq_created event whose leg list is a list
   of leg objects appends exactly one record to rfq_history, whose 'matches'
   is the matcher's result for the RFQ (on the target list of that moment,
   unless the operator emptied the list while the matcher ran), and
   'rfq_received' is emitted with that record whether or not it matches; only
   handle_rfq appends records; an event whose leg list is null makes
   handle_rfq raise before the append and leaves no record and no emit. *)
C11_RecordAndEmit ==
    [][ /\ rfq_received' = rfq_history'
        /\ rfq_history' # rfq_history =>
              /\ running.kind = "handle_rfq"
              /\ ~running.legs_null
              /\ rfq_history' = Append(rfq_history, Last(rfq_history'))
              /\ Last(rfq_history').rfq_id = running.rfq_id
              /\ ~TargetsClearedMidMatch =>
                    Last(rfq_history').matches =
                        matches_target_market(running.legs, selected_target_legs)
        /\ TaskEnds("handle_rfq") =>
              Records(rfq_history', running.rfq_id) =
                  (IF running.legs_null THEN 0 ELSE 1)
      ]_vars

\* a matching and a non-matching RFQ have been recorded and announced
C11_Witness ==
    /\ running = NoTask
    /\ Len(rfq_history) = 2
    /\ rfq_history[1].matches # rfq_history[2].matches
    /\ rfq_received = rfq_history

(* C11 (as stated): every handled rfq_created event appends exactly one
   record to rfq_history. *)
C11_EveryEventRecorded ==
    [][ TaskEnds("handle_rfq") => Records(rfq_history', running.rfq_id) = 1 ]_vars

\* every entry of the list is still there, at its position, as the same entry
\* (its fields `keys` are what they were)
KeepsEntries(old, new, keys) ==
    /\ Len(new) >= Len(old)
    /\ \A i \in DOMAIN old :
          \A k \in keys : Has(old[i], k) => (Has(new[i], k) /\ new[i][k] = old[i][k])

(* C12: rfq_history, quote_history and accepted_quotes are append-only: in
   every step (stream events, tasks, target-leg and price updates, the
   auto-confirm toggle, start and stop of the listener, history reads) no
   list gets shorter and every entry stays at its position; RFQ records are
   not changed at all, and the other records keep the fields that identify
   them. A history read returns the list's last entries (all of them while
   there are at most 50). *)
C12_AppendOnly ==
    [][ /\ KeepsEntries(rfq_history, rfq_history', {"rfq_id", "matches"})
        /\ KeepsEntries(quote_history, quote_history',
                        {"rfq_id", "status", "quote_id", "request_payload"})
        /\ KeepsEntries(accepted_quotes, accepted_quotes', {"quote_id", "auto_confirmed"})
        /\ history_response("rfq-history") = rfq_history
        /\ history_response("quote-history") = quote_history
        /\ history_response("accepted-quotes") = accepted_quotes
      ]_vars

\* the lists have entries, one of them changed in place, and the listener was
\* stopped afterwards
C12_Witness ==
    /\ listener = "ended"
    /\ Len(rfq_history) >= 1
    /\ Len(accepted_quotes) >= 1
    /\ \E i \in DOMAIN quote_history : IsMatched(quote_history[i])

(* C13: adding legs to an RFQ never turns a match into a non-match: when the
   matcher returned True for an RFQ under a target list, it returns True for
   the same RFQ with a further leg appended, under the same target list. *)
C13_MoreLegsKeepMatch ==
    [][ (m_op' = "extend" /\ m_result) => m_result' ]_vars

\* a matching RFQ got a leg that is no target leg, and still matches
C13_Witness ==
    /\ m_op = "extend"
    /\ m_result
    /\ Len(m_legs) = MaxLegs + 1
    /\ LegId(m_legs[Len(m_legs)]) \notin SelectedSet(m_targets)

(* C14: the matcher's result does not depend on the order of the RFQ's legs:
   exchanging two neighbouring legs (and so any permutation of the legs)
   leaves the result as it was, for every target list. *)
C14_LegOrderIrrelevant ==
    [][ m_op' = "permute" => (m_result' = m_result /\ m_targets' = m_targets) ]_vars

\* two different legs changed places in an RFQ that matches two target legs
C14_Witness ==
    /\ m_op = "permute"
    /\ m_result
    /\ Len(m_legs) = 2
    /\ LegId(m_legs[1]) # LegId(m_legs[2])
    /\ Cardinality(SelectedSet(m_targets)) = 2

\* the step changes the target list or a bid
ConfigChanges ==
    \/ selected_target_legs' # selected_target_legs
    \/ QUOTE_YES_BID' # QUOTE_YES_BID
    \/ QUOTE_NO_BID' # QUOTE_NO_BID

(* C15: a change of the target list or of the bids leaves rfq_history and
   quote_history as they are; no step changes a record of rfq_history once it
   is appended, and no step changes the yes_bid, no_bid or request payload of
   an existing quote_history entry: the change shows only in entries appended
   after it. *)
C15_NoRetroactiveChange ==
    [][ /\ ConfigChanges => (rfq_history' = rfq_history /\ quote_history' = quote_history)
        /\ \A i \in DOMAIN rfq_history :
              i \in DOMAIN rfq_history' /\ rfq_history'[i] = rfq_history[i]
        /\ KeepsEntries(quote_history, quote_history',
                        {"yes_bid", "no_bid", "request_payload"})
      ]_vars

\* an RFQ recorded as no match before the target list was set, one recorded as
\* a match after it, and a quote entry that carries the bid of before a change
C15_Witness ==
    /\ Len(rfq_history) = 2
    /\ ~rfq_history[1].matches
    /\ rfq_history[2].matches
    /\ selected_target_legs # <<>>
    /\ \E i \in DOMAIN quote_history :
          /\ quote_history[i].yes_bid = DEFAULT_YES_BID
          /\ quote_history[i].yes_bid # QUOTE_YES_BID

-----------------------------------------------------------------------------
(* The listener (SpecListener) *)

\* the lifecycle state the position of connect_and_listen stands for
ListenerState ==
    CASE listen_pc \in {"idle", "done"} -> "Disconnected"
      [] listen_pc \in {"auth", "connect", "subscribe"} -> "Connecting"
      [] listen_pc = "subscribed" -> "Subscribed"
      [] listen_pc = "listening" -> "Listening"

LifecycleMoves ==
    { <<"Disconnected", "Connecting">>, <<"Connecting", "Subscribed">>,
      <<"Subscribed", "Listening">> }
    \cup { <<state, "Disconnected">> :
              state \in {"Connecting", "Subscribed", "Listening"} }

\* a step of the message loop that hands a frame to the callback
Dispatches == Len(dispatched') > Len(dispatched)
\* a step of the message loop that takes a frame from the connection
Receives == Len(received') > Len(received)

\* C16: the listener only moves Disconnected -> Connecting -> Subscribed ->
\* Listening -> Disconnected (leaving for Disconnected from any of them); the
\* subscribe command is sent once per opened connection, after the connection
\* opened and before any frame is received or dispatched; and an invocation
\* whose header computation or connection failed sends and dispatches nothing.
C16_Lifecycle ==
    [][ /\ ListenerState' # ListenerState =>
              <<ListenerState, ListenerState'>> \in LifecycleMoves
        /\ subscribe_sends' <= 1
        /\ subscribe_sends' > subscribe_sends =>
              /\ connect_attempts = 1 /\ ws # "none"
              /\ received = <<>> /\ dispatched = <<>>
        /\ listen_pc' \in {"subscribed", "listening"} => subscribe_sends' = 1
        /\ (listen_pc' = "done" /\ ws' # "none") => subscribe_sends' = 1
        /\ (Receives \/ Dispatches) =>
              listen_pc = "listening" /\ ws = "open" /\ subscribe_sends = 1
        /\ listen_exit' \in {"no_auth_headers", "connect_failed"} =>
              /\ subscribe_sends' = 0 /\ ws' = "none"
              /\ received' = <<>> /\ dispatched' = <<>> ]_vars

C16_Witness ==
    /\ listen_pc = "done" /\ listen_exit = "closed"
    /\ subscribe_sends = 1 /\ connect_attempts = 1
    /\ Len(dispatched) >= 2



\* the frame taken from the connection in this step
FrameTaken == Last(received')

\* the frame decodes to an object of this type whose 'msg' is not null
Decoded(frame, types) ==
    frame.json = "object" /\ frame.msg = "object" /\ frame.type \in types

\* C17: while no stop is requested, every received frame that decodes to an
\* rfq_created, quote_created, quote_accepted or quote_confirmed object with a
\* non-null 'msg' is handed to the callback exactly once, in the order
\* received; every other frame, rfq_deleted included, is not handed to it; and
\* nothing but the message loop adds to the callback's calls.
C17_CallbackOncePerFrame ==
    [][ /\ Receives =>
              IF /\ ~should_stop
                 /\ Decoded(FrameTaken, {"rfq_created", "quote_created",
                                         "quote_accepted", "quote_confirmed"})
              THEN dispatched' = Append(dispatched, FrameTaken)
              ELSE dispatched' = dispatched
        /\ (~Receives /\ starts' = starts) => dispatched' = dispatched ]_vars

C17_Witness ==
    /\ Len(received) = 3 /\ Len(dispatched) = 2
    /\ Decoded(received[1], {"rfq_created"})
    /\ Decoded(received[2], {"rfq_deleted"})
    /\ Decoded(received[3], {"quote_accepted"})
    /\ dispatched = <<received[1], received[3]>>

\* C17 as stated: every decoded frame of type rfq_created, rfq_deleted,
\* quote_created, quote_accepted or quote_confirmed received while no stop is
\* requested is handed to the callback exactly once, in the order received.
C17_NamedTypesDispatched ==
    [][ ( /\ Receives /\ ~should_stop
          /\ FrameTaken.json = "object"
          /\ FrameTaken.type \in {"rfq_created", "rfq_deleted", "quote_created",
                                  "quote_accepted", "quote_confirmed"} )
        => dispatched' = Append(dispatched, FrameTaken) ]_vars



\* the frame is not JSON, is JSON but not an object, or is an object whose
\* type is none of those the loop knows (or is missing)
Unreadable(frame) ==
    frame.json # "object" \/ frame.type \in {"other", "absent"}

\* C18: while no stop is requested, a frame that fails JSON decoding or whose
\* type is unknown is skipped: the callback is not called for it, and the
\* loop stays in the message loop on the open connection, where the
\* frames after it are taken and dispatched.
C18_BadFrameSkipped ==
    [][ (Receives /\ ~should_stop /\ Unreadable(FrameTaken)) =>
            /\ dispatched' = dispatched
            /\ listen_pc' = "listening" /\ ws' = "open"
            /\ connected' = connected /\ listen_exit' = "none" ]_vars

C18_Witness ==
    /\ Len(received) = 3
    /\ received[1].json = "invalid"
    /\ Decoded(received[2], {"other"})
    /\ Decoded(received[3], {"quote_created"})
    /\ dispatched = <<received[3]>>
    /\ listen_pc = "listening" /\ connected



\* C19: once disconnect() has set should_stop on a client, the flag stays set
\* and no frame is handed to the callback any more; the first frame received
\* after it ends the loop undispatched, with the connection closed and
\* connected = False; and however connect_and_listen ends, it ends with
\* connected = False and no open connection.
C19_StopAtNextFrame ==
    [][ /\ (should_stop /\ starts' = starts) =>
              should_stop' /\ dispatched' = dispatched
        /\ (should_stop /\ Receives) =>
              /\ listen_pc' = "done" /\ listen_exit' = "stopped"
              /\ ws' = "closed" /\ ~connected'
        /\ listen_pc' = "done" => (~connected' /\ ws' # "open") ]_vars

C19_Witness ==
    /\ should_stop /\ listen_pc = "done" /\ listen_exit = "stopped"
    /\ Len(received) = 3 /\ Len(dispatched) = 2
    /\ Decoded(received[3], {"rfq_created"})
    /\ ws = "closed" /\ ~connected



\* C20: one call of connect_and_listen opens at most one connection; a failed
\* connection attempt ends the call at once; every end of the call leaves
\* connected = False; and after the end nothing changes on the client (no new
\* attempt, no subscribe, no frame, connected stays False) until a client is
\* started again from outside.
C20_NoReconnect ==
    [][ /\ connect_attempts' <= 1
        /\ (connect_attempts' > connect_attempts /\ ws' = "none") =>
              listen_pc' = "done"
        /\ (listen_pc # "done" /\ listen_pc' = "done") => ~connected'
        /\ (listen_pc = "done" /\ starts' = starts) =>
              /\ listen_pc' = "done" /\ ~connected' /\ ws' = ws
              /\ connect_attempts' = connect_attempts
              /\ subscribe_sends' = subscribe_sends
              /\ received' = received /\ dispatched' = dispatched ]_vars

C20_Witness ==
    /\ starts = 2 /\ listen_pc = "done" /\ listen_exit = "transport_error"
    /\ connect_attempts = 1 /\ Len(received) >= 1 /\ ~connected



-----------------------------------------------------------------------------
(* REST failures seen from the orchestrator (Spec) *)

\* the step of the running task that leaves this position
Leaves(kind, pc) == IsStep(kind, pc) /\ running' # running

\* the record of accepted_quotes the confirm task writes to
ConfirmRecord(list) == list[FirstWithQuoteId(accepted_quotes, running.quote_id)]

\* a response payload with a status and a body that is the error text
ErrorPayload(payload, error) == payload = [status |-> "Error", body |-> error]

\* the loop goes on: the listener is where it was and no ready task is lost
LoopGoesOn == listener' = listener /\ ready' = ready

\* C21: a failing create_quote call always reaches the except branch of
\* send_quote, which appends one entry with status 'error', the error text,
\* the request echo and a response payload (status, body), and emits
\* 'quote_error'; a confirm_quote call whose three attempts failed always
\* writes confirmed = False, confirmation_error and a response payload
\* (status, body) to the first record with that quote id and emits
\* 'quote_confirmation_error'; neither ends the listener's loop nor drops a
\* ready task.
C21_FailureRecorded ==
    [][ /\ (Leaves("handle_rfq", "create_quote")
              /\ ~create_quote_returns(running'.outcome)) =>
              running'.pc = "error_entry" /\ LoopGoesOn
        /\ Leaves("handle_rfq", "error_entry") =>
              /\ quote_history' = Append(quote_history, Last(quote_history'))
              /\ Last(quote_history').status = "error"
              /\ Last(quote_history').rfq_id = running.rfq_id
              /\ Has(Last(quote_history'), "request_payload")
              /\ ErrorPayload(Last(quote_history').response_payload,
                              Last(quote_history').error)
              /\ quote_emitted' = Append(quote_emitted, "quote_error")
              /\ LoopGoesOn
        /\ (Leaves("confirm_quote", "attempt")
              /\ ~confirm_attempt_succeeds(running'.outcome)) =>
              running'.pc \in {"attempt", "raised"} /\ LoopGoesOn
        /\ Leaves("confirm_quote", "raised") =>
              /\ FirstWithQuoteId(accepted_quotes, running.quote_id) # 0
              /\ ConfirmRecord(accepted_quotes').confirmed = FALSE
              /\ ErrorPayload(ConfirmRecord(accepted_quotes').confirmation_response,
                              ConfirmRecord(accepted_quotes').confirmation_error)
              /\ last_emit' = "quote_confirmation_error"
              /\ LoopGoesOn ]_vars

C21_Witness ==
    /\ listener = "listening" /\ running = NoTask
    /\ Len(quote_history) = 1 /\ quote_history[1].status = "error"
    /\ quote_emitted = <<"quote_error">>
    /\ \E i \in DOMAIN accepted_quotes : Has(accepted_quotes[i], "confirmation_error")
    /\ Len(rfq_history) = 2

\* C21 as stated: the entry written for a failure carries the status, the
\* body and the request echo, for quote creation and for confirmation alike.
C21_RequestEchoRecorded ==
    [][ /\ Leaves("handle_rfq", "error_entry") =>
              /\ Has(Last(quote_history'), "response_payload")
              /\ Has(Last(quote_history'), "request_payload")
        /\ Leaves("confirm_quote", "raised") =>
              /\ Has(ConfirmRecord(accepted_quotes'), "confirmation_response")
              /\ \/ Has(ConfirmRecord(accepted_quotes'), "request_payload")
                 \/ Has(ConfirmRecord(accepted_quotes'), "confirmation_request") ]_vars



\* an HTTP call of the running task is in flight (create_quote's POST, or one
\* of confirm_quote's PUTs and the sleep after it)
CallInFlight ==
    running.kind # "none" /\ running.pc \in {"create_quote", "attempt"}

\* the session still has a frame to deliver
FramePending ==
    /\ listener = "listening"
    /\ nframes < MaxFrames /\ nframes + operator_actions < MaxEvents

\* C22 as stated: while a quote-creation or confirmation HTTP call is in
\* flight, the listener can receive and dispatch the next inbound frame.
C22_LoopFreeDuringCalls ==
    (CallInFlight /\ FramePending) =>
        ENABLED (\E rfq \in SessionRfqs : recv_rfq_created(rfq))



\* C23 as stated: a manual confirm request for a quote id that has an
\* AcceptedQuote record starts one new confirmation: a confirm_quote task for
\* that quote id is scheduled.
C23_ManualConfirmStarts ==
    [][ \A quote_id \in ManualQuoteIds :
          ( /\ manual_confirm_quote(quote_id)
            /\ FirstWithQuoteId(accepted_quotes, quote_id) # 0 )
          => /\ Len(ready') = Len(ready) + 1
             /\ Last(ready').kind = "confirm_quote"
             /\ Last(ready').quote_id = quote_id ]_vars



-----------------------------------------------------------------------------
(* The REST client (SpecClient) *)

\* the call in progress or finished is a call of this method
Called(method) == k_call.method = method

\* C24 as stated: every request confirm_quote sends, on every attempt, is a
\* PUT to the quote's confirm endpoint with no body and without a
\* Content-Type header.
C24_PutWithoutContentType ==
    Called("confirm_quote") =>
        \A i \in DOMAIN k_sent :
            /\ k_sent[i].method = "PUT"
            /\ k_sent[i].path = <<"quotes", k_call.quote_id, "confirm">>
            /\ k_sent[i].body = "none"
            /\ "Content-Type" \notin k_sent[i].headers



\* a turn of confirm_quote's retry loop
ConfirmTurn ==
    /\ Called("confirm_quote") /\ k_pc = "attempt"
    /\ (k_pc' # k_pc \/ k_attempt' # k_attempt)

\* the turn ended the call with `return result`
Returned == k_pc' = "done" /\ k_result'.kind = "returned"

\* the turn failed: its exception is last_error, and the loop goes round again
\* or the call raises
FailedAttempt ==
    /\ k_last_error'.attempt = k_attempt
    /\ \/ k_pc' = "attempt" /\ k_attempt' = k_attempt + 1
       \/ k_pc' = "done" /\ k_result'.kind = "raised"

\* C25: confirm_quote returns on a 204, on a 200 with an empty body and on a
\* 200 whose body is a JSON object: the 200 with an object returns the parsed
\* body, the other two the synthetic {status: 'confirmed', quote_id}, each
\* with the attempt's request added under '_request_info'; every other answer
\* (another status, a 200 whose body is not a JSON object, no answer, no auth
\* headers) is a failed attempt.
C25_SuccessStatuses ==
    [][ ConfirmTurn =>
          IF k_response'.status = 200 /\ k_response'.body = "object"
          THEN /\ Returned
               /\ k_result'.value = [body |-> "parsed", request_info |-> Last(k_sent')]
          ELSE IF k_response'.status = 204
                  \/ (k_response'.status = 200 /\ k_response'.body = "empty")
          THEN /\ Returned
               /\ k_result'.value = [status |-> "confirmed",
                                     quote_id |-> k_call.quote_id,
                                     request_info |-> Last(k_sent')]
          ELSE FailedAttempt ]_vars

C25_Witness ==
    /\ Called("confirm_quote") /\ k_result.kind = "returned"
    /\ k_result.attempt = 3 /\ k_response.status = 204
    /\ k_last_error.type = "JSONDecodeError"

\* C25 as stated: status 200 and status 204 are success (the call returns),
\* every other status is a failed attempt.
C25_Every200Returns ==
    [][ ConfirmTurn =>
          IF k_response'.status \in {200, 204} THEN Returned ELSE FailedAttempt ]_vars



\* confirm_quote ended with `raise last_error`
ConfirmRaised == Called("confirm_quote") /\ k_result.kind = "raised"

\* C26: when confirm_quote raises, three attempts were made and the error
\* raised is the third attempt's; it carries the request (method, URL,
\* headers) of the latest attempt that got as far as building one, and it
\* carries none when the auth headers could not be built in any attempt.
C26_LastErrorWithRequest ==
    ConfirmRaised =>
        /\ k_attempt = 3
        /\ k_result.error = k_last_error
        /\ k_result.error.attempt = 3
        /\ IF k_sent = <<>>
           THEN ~Has(k_result.error, "request_info")
           ELSE /\ Has(k_result.error, "request_info")
                /\ k_result.error.request_info = Last(k_sent)
                /\ k_result.error.request_info.method = "PUT"
                /\ k_result.error.request_info.headers = confirm_headers

C26_Witness ==
    /\ ConfirmRaised /\ Len(k_sent) = 3
    /\ k_result.error.type = "ConnectionError"
    /\ k_result.error.request_info.signed_at = 3

\* C26 as stated: the error raised after three failed attempts carries the
\* request that was attempted, however the attempts failed.
C26_RequestAlwaysCarried ==
    ConfirmRaised =>
        /\ k_result.error.attempt = 3
        /\ Has(k_result.error, "request_info")
        /\ k_result.error.request_info.method = "PUT"



\* create_quote got an answer (or none) to its POST and ended
CreateAnswered ==
    Called("create_quote") /\ k_pc = "done" /\ k_response # NotSent

\* C27: create_quote returns exactly for a 200 or 201 answer whose body
\* parses as JSON, and what it returns is that body; for every other status,
\* another 2xx included, it raises an exception whose message names the
\* status unless the exchange's own error message contains "HTTP", and the
\* message holds the body text only for a JSON body without 'error'.
C27_CreateQuoteOutcome ==
    CreateAnswered =>
        IF k_response # NoResponse /\ k_response.status \in {200, 201}
           /\ k_response.body # "text"
        THEN k_result = [kind |-> "returned", value |-> k_response.body]
        ELSE /\ k_result.kind = "raised"
             /\ (k_response # NoResponse /\ k_response.status \notin {200, 201}) =>
                  /\ k_result.error.type = "Exception"
                  /\ k_result.error.status = k_response.status
                       <=> k_response.body # "error_object_http"
                  /\ k_result.error.text = "body" <=> k_response.body = "object"

C27_Witness ==
    /\ CreateAnswered
    /\ k_response # NoResponse /\ k_response.status = 429
    /\ k_result.kind = "raised" /\ k_result.error.status = 429

\* C27 as stated: an error with the status and the body for every status
\* that is not 2xx, the created quote for every 2xx.
C27_Every2xxReturns ==
    (CreateAnswered /\ k_response # NoResponse) =>
        IF k_response.status \in 200..299
        THEN k_result.kind = "returned"
        ELSE /\ k_result.kind = "raised"
             /\ k_result.error.status = k_response.status
             /\ k_result.error.text = "body"

\* C28 as stated: a call with an absent bid sends a body that carries
\* "0.0000" for that bid.
C28_AbsentBidSentAsZero ==
    (Called("create_quote") /\ k_pc # "idle"
     /\ NoBid \in {k_call.yes_bid, k_call.no_bid}) =>
        /\ k_sent # <<>>
        /\ k_call.yes_bid = NoBid => Last(k_sent).body.yes_bid = "0.0000"
        /\ k_call.no_bid = NoBid => Last(k_sent).body.no_bid = "0.0000"



\* a wrapper was called and the exchange answered 4xx or 5xx
WrapperRefused ==
    /\ k_call.method \in Wrappers /\ k_pc = "done"
    /\ k_response.status \in 400..599

\* C29: a wrapper whose request is answered 4xx or 5xx raises; the error is
\* requests' HTTPError carrying the status, for 429 as for any other such
\* status, with two exceptions: accept_quote raises a rate-limit error of
\* its own for 429, and create_order raises an error without the status
\* when the body is JSON.
C29_WrapperErrors ==
    WrapperRefused =>
        /\ k_result.kind = "raised"
        /\ k_result.error.message = "rate_limited"
             <=> (k_call.method = "accept_quote" /\ k_response.status = 429)
        /\ k_result.error.status = k_response.status
             <=> ~(k_call.method = "create_order" /\ k_response.body = "object")
        /\ k_result.error.type = "HTTPError"
             <=> k_result.error.message = "http_error"

C29_Witness ==
    /\ WrapperRefused /\ k_call.method = "accept_quote"
    /\ k_response.status = 429 /\ k_result.error.message = "rate_limited"

\* C29 as stated: every wrapper's error carries the status, and a 429 gives
\* a rate-limit error, unlike any other status.
C29_RateLimitDistinct ==
    WrapperRefused =>
        /\ k_result.kind = "raised"
        /\ k_result.error.status = k_response.status
        /\ k_result.error.message = "rate_limited" <=> k_response.status = 429



-----------------------------------------------------------------------------
(* The leg classifier (SpecClassify) *)

Classified == c_type # <<>>

\* the identifier and the side that were classified, as upper() makes them
Identifier == Upper(Joined(c_tokens))
SideWord == Upper(c_side)

IdentifierHas(keywords) == \E keyword \in keywords : In(keyword, Identifier)

LeagueKeywords == <<<<"N", "F", "L">>, <<"N", "B", "A">>, <<"N", "H", "L">>>>
SpreadKeywords == {<<"S", "P", "R", "D">>, <<"S", "P", "R", "E", "A", "D">>}
TotalKeywords == {<<"T", "O", "T", "L">>, <<"T", "O", "T", "A", "L">>}

\* the first league, in the order NFL, NBA, NHL, whose keyword is present
LeagueOf(i) ==
    /\ In(LeagueKeywords[i], Identifier)
    /\ \A j \in 1..(i - 1) : ~In(LeagueKeywords[j], Identifier)

SpreadRule == IdentifierHas(SpreadKeywords)
TotalRule ==
    \/ IdentifierHas(TotalKeywords)
    \/ In(<<"O", "V", "E", "R">>, SideWord) \/ In(<<"U", "N", "D", "E", "R">>, SideWord)
MoneylineRule(i) == In(LeagueKeywords[i] \o <<"G", "A", "M", "E">>, Identifier)

PlayerProps ==
    {"Player Props - Touchdowns", "Player Props - Passing",
     "Player Props - Rushing", "Player Props - Receiving",
     "Player Props - Points", "Player Props - Assists",
     "Player Props - Rebounds", "Player Props - Threes", "Player Props - Other"}

\* C30: an identifier with a league keyword and a spread keyword is
\* classified 'Spreads' in the first league present, whatever the side and
\* the other keywords; without a spread keyword a total keyword (or an
\* over/under side) gives 'Totals'; without either, the league's GAME
\* keyword gives 'Moneylines'; a player-prop category is returned only
\* when none of the three rules applies.
C30_SpreadFirst ==
    \A i \in 1..3 :
        (Classified /\ LeagueOf(i)) =>
            /\ c_type[1] = LeagueKeywords[i][1] \o LeagueKeywords[i][2]
                           \o LeagueKeywords[i][3]
            /\ SpreadRule => c_type[2] = "Spreads"
            /\ (~SpreadRule /\ TotalRule) => c_type[2] = "Totals"
            /\ (~SpreadRule /\ ~TotalRule /\ MoneylineRule(i))
                 => c_type[2] = "Moneylines"
            /\ c_type[2] \in PlayerProps
                 => (~SpreadRule /\ ~TotalRule /\ ~MoneylineRule(i))

C30_Witness ==
    /\ Classified
    /\ c_tokens = <<<<"n", "b", "a">>, <<"s", "p", "r", "e", "a", "d">>, <<"T", "O", "T", "A", "L">>>>
    /\ c_side = <<"o", "v", "e", "r">>
    /\ c_type = <<"NBA", "Spreads">>



-----------------------------------------------------------------------------
(* The leg classifier on any value (SpecTotal) *)

NotStrGiven == c_types # <<"str", "str">>

\* the keywords that open a branch of the classifier
BranchKeywords == {<<"N", "F", "L">>, <<"N", "B", "A">>, <<"N", "H", "L">>, <<"S", "P", "O", "R", "T", "S", "M", "U", "L", "T", "I", "G", "A", "M", "E">>}

\* C31: extract_market_type returns a (sport, category) pair for every
\* ticker and side, never an exception; the pair is ('Other', 'Unknown')
\* when the ticker or the side is not a str, and when the ticker is a str
\* that holds no league keyword and not SPORTSMULTIGAME.
C31_Total ==
    Classified =>
        /\ Len(c_type) = 2
        /\ c_type[1] # "raised"
        /\ NotStrGiven => c_type = <<"Other", "Unknown">>
        /\ (~NotStrGiven /\ ~IdentifierHas(BranchKeywords))
             => c_type = <<"Other", "Unknown">>
        /\ (~NotStrGiven /\ IdentifierHas(BranchKeywords))
             => c_type # <<"Other", "Unknown">>

C31_Witness ==
    /\ Classified
    /\ c_types = <<"str", "NoneType">>
    /\ c_tokens = <<<<"N", "F", "L">>, <<"S", "P", "R", "D">>>>
    /\ c_type = <<"Other", "Unknown">>



-----------------------------------------------------------------------------
(* Starting and stopping the listener (SpecSession) *)

\* the threads whose message loop is alive and hands frames to the handler
LoopsDispatching ==
    { i \in DOMAIN ws_threads :
        /\ ws_threads[i].pc = "listening"
        /\ ws_threads[i].ws = "open"
        /\ ~ws_threads[i].should_stop }

\* C32 as stated: at most one message loop is alive and dispatching, for
\* every sequence of starts and stops.
C32_OneLoopDispatching == Cardinality(LoopsDispatching) <= 1

\* a listener thread has not left connect_and_listen
LoopRunning == \E i \in DOMAIN ws_threads : ws_threads[i].pc # "done"

\* C33 as stated: whenever ws_connected is True a listener loop is running.
C33_ConnectedMeansRunning == ws_connected => LoopRunning

\* the listener is stopped, or was never started
Stopped == ~ws_connected /\ ws_client = 0 /\ ~LoopRunning

\* C40 as stated: once the connection has been stopped, or the start has
\* failed, no file holding the private key remains.
C40_KeyFileErased == Stopped => temp_key_files = 0



-----------------------------------------------------------------------------
(* Quote history and stream events (Spec) *)

\* the id of the quote_accepted event handled in this step
AcceptedId == accepted_quotes'[Len(accepted_quotes')].quote_id

\* the entries of the quotes that were created
SentAt(history) == { i \in DOMAIN history : history[i].status = "sent" }

\* C34: a quote_accepted event is only handled between tasks, when every
\* quote the exchange created has its 'sent' entry in quote_history; if the
\* event's id is the id of such an entry, the entry has matched = True
\* after the event.
C34_AcceptedMarksSent ==
    [][AcceptedHandled =>
          /\ running = NoTask
          /\ Cardinality(SentAt(quote_history)) = exchange_quotes
          /\ \A i \in SentAt(quote_history) :
                (AcceptedId # None /\ quote_history[i].quote_id = AcceptedId)
                    => /\ quote_history'[i].status = "sent"
                       /\ quote_history'[i].quote_id = AcceptedId
                       /\ quote_history'[i].matched]_vars

C34_Witness ==
    /\ \E i \in SentAt(quote_history) :
          /\ quote_history[i].quote_id = 1 /\ quote_history[i].matched
          /\ Has(quote_history[i], "matched_at")
    /\ \E j \in DOMAIN accepted_quotes : accepted_quotes[j].quote_id = 1
    /\ running = NoTask



\* C35 as stated: when a confirmation of quote id q has succeeded, every
\* AcceptedQuote record with quote id q has confirmed = True.
C35_AllRecordsConfirmed ==
    [][(TaskEnds("confirm_quote") /\ running.pc = "returned") =>
          \A i \in DOMAIN accepted_quotes' :
              accepted_quotes'[i].quote_id = running.quote_id
                  => accepted_quotes'[i].confirmed]_vars



\* C36 as stated: an entry of quote_history is marked matched only if its
\* status is 'sent' and it has a quote id (the one the event carries); an
\* event without a quote id marks no entry.
C36_OnlySentMatchedById ==
    [][\A i \in DOMAIN quote_history :
          (~IsMatched(quote_history[i]) /\ IsMatched(quote_history'[i]))
              => /\ quote_history[i].status = "sent"
                 /\ GetQuoteId(quote_history[i]) # None]_vars



\* C37 as stated: the bids stored in a 'sent' entry, and those of its
\* request_payload, are the bids of the request body that was sent.
C37_StoredBidsAreSentBids ==
    [][(IsStep("handle_rfq", "sent_entry")
        /\ Len(quote_history') = Len(quote_history) + 1) =>
          LET entry == quote_history'[Len(quote_history')] IN
          /\ entry.yes_bid = running.body.yes_bid
          /\ entry.no_bid = running.body.no_bid
          /\ entry.request_payload.yes_bid = running.body.yes_bid
          /\ entry.request_payload.no_bid = running.body.no_bid]_vars



-----------------------------------------------------------------------------
(* Confirmation without credentials (SpecConfirm) *)

\* the confirm_quote task ends in this step, and it had found the key id or
\* the key missing
EndsWithoutCredentials ==
    /\ TaskEnds("confirm_quote")
    /\ Has(running, "creds") /\ running.creds # "present"

\* C38: a confirm_quote that finds no key id, no key path or no loadable
\* key sends no request; it ends in its except branch, which writes
\* confirmed = False and the error on the first record with the quote id,
\* tells the observers, and leaves the other records, the waiting tasks and
\* the loop as they were.
C38_NoCredentialsNoRequest ==
    [][EndsWithoutCredentials =>
          LET i == FirstWithQuoteId(accepted_quotes, running.quote_id) IN
          /\ k_sent = <<>>
          /\ i # 0
          /\ accepted_quotes'[i].confirmed = FALSE
          /\ Has(accepted_quotes'[i], "confirmation_error")
          /\ accepted_quotes'[i].confirmation_error = "RuntimeError"
          /\ \A j \in DOMAIN accepted_quotes :
                j # i => accepted_quotes'[j] = accepted_quotes[j]
          /\ last_emit' = "quote_confirmation_error"
          /\ ready' = ready
          /\ running' = NoTask /\ k_pc' = "idle"]_vars

\* a confirmation failed for want of credentials and a later one succeeded
C38_Witness ==
    /\ Len(accepted_quotes) = 2
    /\ accepted_quotes[1].quote_id = 1 /\ accepted_quotes[2].quote_id = 2
    /\ Has(accepted_quotes[1], "confirmation_error")
    /\ accepted_quotes[1].confirmation_error = "RuntimeError"
    /\ ~accepted_quotes[1].confirmed
    /\ accepted_quotes[2].confirmed
    /\ running = NoTask



-----------------------------------------------------------------------------
(* Signing of the confirm attempts (SpecClient) *)

\* an attempt of confirm_quote sends its request in this step
ConfirmRequestSent ==
    Called("confirm_quote") /\ Len(k_sent') = Len(k_sent) + 1

\* C39: the request of each confirm attempt carries auth headers computed
\* in that attempt, and no earlier request carried them.
C39_HeadersPerAttempt ==
    [][ConfirmRequestSent =>
          /\ k_sent'[Len(k_sent')].signed_at = k_attempt
          /\ \A i \in DOMAIN k_sent : k_sent[i].signed_at < k_attempt]_vars

C39_Witness ==
    /\ Called("confirm_quote") /\ Len(k_sent) = 3
    /\ \A i \in 1..3 : k_sent[i].signed_at = i
    /\ k_result.kind = "returned"


====
